---- MODULE Spec2Model ----
(***************************************************************************)
(* Model of the v_help conversation engine (src/app/conversation.py):      *)
(* lexical analyzers, session store, state handlers, global command        *)
(* interceptor, response personalizer and the orchestrator handle_message. *)
(* Messages are strings; TLC evaluates Len, SubSeq, Head, Tail and \o on   *)
(* strings, so substring tests and the regular expressions of the source   *)
(* are computed character by character.  The replies are the texts of the *)
(* source without their pictographs; the services menu, the service        *)
(* details and the FAQ answers of app/services.py are kept symbolic.       *)
(***************************************************************************)
EXTENDS Integers, Sequences, FiniteSets, TLC

VARIABLES
    sessions,   \* SessionManager._sessions: user id -> session record or NoSession
    now,        \* the wall clock datetime.now(), in minutes
    script,     \* messages of the replayed conversation still to be sent
    steps,      \* number of free operations performed after the replay
    last,       \* the last operation: its inputs, its reply, the store before it
    heap,       \* concurrent runs: session objects by object id
    store,      \* concurrent runs: user id -> object id (0: no entry)
    thr         \* concurrent runs: the in-flight handle_message calls

vars == <<sessions, now, script, steps, last, heap, store, thr>>

-----------------------------------------------------------------------------
(* Optional values: Python's None is <<>>, a value v is <<v>>.              *)

None == <<>>
Some(v) == <<v>>
IsSome(o) == o # <<>>
Get(o) == o[1]

-----------------------------------------------------------------------------
(* Strings                                                                  *)

At(s, i) == IF i >= 1 /\ i <= Len(s) THEN SubSeq(s, i, i) ELSE ""

UpperLetters == "ABCDEFGHIJKLMNOPQRSTUVWXYZ"
LowerLetters == "abcdefghijklmnopqrstuvwxyz"
DigitChars == "0123456789"

CharSet(s) == {SubSeq(s, i, i) : i \in 1..Len(s)}

DigitSet == CharSet(DigitChars)
UpperSet == CharSet(UpperLetters)
WordCharSet == CharSet(LowerLetters) \cup UpperSet \cup DigitSet \cup {"_"}

IsDigit(c) == c \in DigitSet
\* \w of Python's re on the ASCII range
IsWordChar(c) == c \in WordCharSet
\* \s, and the characters str.strip() and str.split() treat as blank
IsSpace(c) == c \in {" ", "\t", "\n"}

LowerChar(c) ==
    IF c \in UpperSet
    THEN At(LowerLetters, CHOOSE k \in 1..26 : At(UpperLetters, k) = c)
    ELSE c

RECURSIVE Lower(_)
Lower(s) == IF s = "" THEN "" ELSE LowerChar(Head(s)) \o Lower(Tail(s))

RECURSIVE LStrip(_)
LStrip(s) == IF s # "" /\ IsSpace(Head(s)) THEN LStrip(Tail(s)) ELSE s

RECURSIVE RStrip(_)
RStrip(s) ==
    IF s # "" /\ IsSpace(At(s, Len(s))) THEN RStrip(SubSeq(s, 1, Len(s) - 1)) ELSE s

Strip(s) == RStrip(LStrip(s))

\* Python's `sub in s`
IsSubstr(sub, s) ==
    \E i \in 1..(Len(s) - Len(sub) + 1) : SubSeq(s, i, i + Len(sub) - 1) = sub

\* \b at the position before character p (p in 1..Len(s)+1)
WordBoundary(s, p) == IsWordChar(At(s, p - 1)) # IsWordChar(At(s, p))

\* re.search(r'\b(a1|a2|...)\b', s)
WordSearch(alts, s) ==
    \E a \in alts : \E i \in 1..(Len(s) - Len(a) + 1) :
        /\ SubSeq(s, i, i + Len(a) - 1) = a
        /\ WordBoundary(s, i)
        /\ WordBoundary(s, i + Len(a))

\* re.findall(r'\w+', s) as a set: the maximal runs of word characters
\* (r'\b\w+\b' finds the same runs)
RECURSIVE RunEnd(_, _)
RunEnd(s, i) == IF IsWordChar(At(s, i + 1)) THEN RunEnd(s, i + 1) ELSE i

WordRuns(s) ==
    {SubSeq(s, i, RunEnd(s, i)) :
        i \in {k \in 1..Len(s) : IsWordChar(At(s, k)) /\ ~IsWordChar(At(s, k - 1))}}

\* len(s.split()): the number of maximal runs of non-blank characters
SplitCount(s) ==
    Cardinality({i \in 1..Len(s) : ~IsSpace(At(s, i)) /\ (i = 1 \/ IsSpace(At(s, i - 1)))})

DigitVal(c) == (CHOOSE k \in 1..10 : At(DigitChars, k) = c) - 1

RECURSIVE ParseInt(_)
ParseInt(s) ==
    IF s = "" THEN 0
    ELSE 10 * ParseInt(SubSeq(s, 1, Len(s) - 1)) + DigitVal(At(s, Len(s)))

-----------------------------------------------------------------------------
(* Regular expressions.  A pattern is a record tagged by t; Ends(re, s, P) *)
(* is the set of positions just after a match of re in s that begins at a  *)
(* position of P (positions run from 1 to Len(s) + 1).                     *)

Lit(v) == [t |-> "lit", v |-> v]
Digit == [t |-> "digit"]
Blank == [t |-> "space"]
WordB == [t |-> "wb"]
Cat(rs) == [t |-> "cat", rs |-> rs]
Alt(rs) == [t |-> "alt", rs |-> rs]
Opt(r) == [t |-> "opt", r |-> r]
Star(r) == [t |-> "star", r |-> r]
Plus(r) == [t |-> "plus", r |-> r]

RECURSIVE Ends(_, _, _)
RECURSIVE EndsCat(_, _, _)
RECURSIVE EndsStar(_, _, _)

Ends(re, s, P) ==
    CASE re.t = "lit" ->
           {p + Len(re.v) : p \in {q \in P : /\ q + Len(re.v) - 1 <= Len(s)
                                             /\ SubSeq(s, q, q + Len(re.v) - 1) = re.v}}
      [] re.t = "digit" -> {p + 1 : p \in {q \in P : IsDigit(At(s, q))}}
      [] re.t = "space" -> {p + 1 : p \in {q \in P : IsSpace(At(s, q))}}
      [] re.t = "wb" -> {p \in P : WordBoundary(s, p)}
      [] re.t = "cat" -> EndsCat(re.rs, s, P)
      [] re.t = "alt" -> UNION {Ends(re.rs[k], s, P) : k \in 1..Len(re.rs)}
      [] re.t = "opt" -> P \cup Ends(re.r, s, P)
      [] re.t = "star" -> EndsStar(re.r, s, P)
      [] re.t = "plus" -> EndsStar(re.r, s, Ends(re.r, s, P))

EndsCat(rs, s, P) ==
    IF rs = <<>> \/ P = {} THEN P ELSE EndsCat(Tail(rs), s, Ends(Head(rs), s, P))

EndsStar(r, s, P) ==
    LET Q == Ends(r, s, P) \ P
    IN  IF Q = {} THEN P ELSE EndsStar(r, s, P \cup Q)

SetMin(S) == CHOOSE x \in S : \A y \in S : x <= y
SetMax(S) == CHOOSE x \in S : \A y \in S : x >= y

\* The start positions at which pre (\d+) post matches
CaptureStarts(pre, post, s) ==
    {i \in 1..Len(s) :
        \E g \in Ends(pre, s, {i}) : \E e \in Ends(Plus(Digit), s, {g}) :
            Ends(post, s, {e}) # {}}

\* match.group(1) of re.search(pre (\d+) post, s): the leftmost match, the
\* group taken greedily; None when the pattern matches nowhere
SearchGroup1(pre, post, s) ==
    LET starts == CaptureStarts(pre, post, s)
    IN  IF starts = {} THEN None
        ELSE LET i == SetMin(starts)
                 g == SetMax({x \in Ends(pre, s, {i}) :
                         \E e \in Ends(Plus(Digit), s, {x}) : Ends(post, s, {e}) # {}})
                 e == SetMax({x \in Ends(Plus(Digit), s, {g}) : Ends(post, s, {x}) # {}})
             IN  Some(SubSeq(s, g, e - 1))

\* match.group(0) of re.search(re, s): the leftmost match; every quantifier
\* of the patterns below is greedy and what follows it is optional or
\* disjoint from it, so the match taken is the longest one at that start
SearchGroup0(re, s) ==
    LET starts == {i \in 1..Len(s) : Ends(re, s, {i}) # {}}
    IN  IF starts = {} THEN None
        ELSE LET i == SetMin(starts)
             IN  Some(SubSeq(s, i, SetMax(Ends(re, s, {i})) - 1))

-----------------------------------------------------------------------------
(* Enumerations                                                             *)

\* class ConversationState(Enum)
ConversationState ==
    [INITIAL |-> "initial",
     SERVICE_SELECTION |-> "service",
     SERVICE_DETAIL |-> "service_detail",
     HOURS_COLLECTION |-> "hours",
     BUSINESS_TYPE |-> "business",
     BUDGET_COLLECTION |-> "budget",
     CONFIRMATION |-> "confirm",
     COMPLETED |-> "booked",
     HUMAN_HANDOFF |-> "human_handoff",
     FAQ_MODE |-> "faq",
     ERROR |-> "error"]

\* class Intent(Enum)
Intent ==
    [GREETING |-> "greeting",
     SERVICE_INQUIRY |-> "service_inquiry",
     BOOKING |-> "booking",
     FAQ |-> "faq",
     HELP |-> "help",
     RESTART |-> "restart",
     CONFIRMATION |-> "confirmation",
     REJECTION |-> "rejection",
     HUMAN_REQUEST |-> "human_request",
     SMALL_TALK |-> "small_talk",
     COMPLAINT |-> "complaint",
     UNKNOWN |-> "unknown"]

\* class SentimentScore(Enum)
SentimentScore ==
    [VERY_POSITIVE |-> 2,
     POSITIVE |-> 1,
     NEUTRAL |-> 0,
     NEGATIVE |-> -1,
     VERY_NEGATIVE |-> -2]

-----------------------------------------------------------------------------
(* Intent classifier                                                        *)

\* IntentClassifier.PATTERNS in dictionary (priority) order; each pattern is
\* r'\b(alternatives)\b'
PATTERNS ==
    << [intent |-> Intent.GREETING,
        alts |-> {"hi", "hello", "hey", "good morning", "good afternoon",
                  "good evening", "yo", "sup"}],
       [intent |-> Intent.RESTART,
        alts |-> {"restart", "reset", "start over", "clear", "begin again",
                  "new session"}],
       [intent |-> Intent.CONFIRMATION,
        alts |-> {"yes", "yep", "yeah", "sure", "ok", "okay", "correct", "right",
                  "confirm", "proceed", "continue", "absolutely", "definitely"}],
       [intent |-> Intent.REJECTION,
        alts |-> {"no", "nope", "not now", "later", "cancel", "back", "nevermind",
                  "nah", "negative", "wrong"}],
       [intent |-> Intent.HUMAN_REQUEST,
        alts |-> {"speak to", "talk to", "human", "person", "agent",
                  "representative", "real person", "someone", "help me"}],
       [intent |-> Intent.HUMAN_REQUEST,
        alts |-> {"customer service", "support", "assistance"}],
       [intent |-> Intent.HELP,
        alts |-> {"help", "assist", "support", "guide", "how do", "how to",
                  "what can you", "confused"}],
       [intent |-> Intent.FAQ,
        alts |-> {"pricing", "price", "cost", "hours", "availability", "how long",
                  "when", "location", "contact"}],
       [intent |-> Intent.COMPLAINT,
        alts |-> {"terrible", "horrible", "bad", "worst", "disappointed",
                  "frustrated", "angry", "upset", "useless"}] >>

\* A variant that takes the last pattern found instead of the first
FirstPattern_takes_last(msg_low) ==
    LET hits == {k \in 1..Len(PATTERNS) : WordSearch(PATTERNS[k].alts, msg_low)}
    IN  IF hits = {} THEN 0 ELSE SetMax(hits)

\* The first pattern of PATTERNS, in order, found in msg_low; 0 when none is
FirstPattern(msg_low) ==
    LET hits == {k \in 1..Len(PATTERNS) : WordSearch(PATTERNS[k].alts, msg_low)}
    IN  IF hits = {} THEN 0 ELSE SetMin(hits)

\* A variant that returns the whole intent history
get_recent_intents_all(context, count) == context.intents

\* ConversationContext.get_recent_intents
get_recent_intents(context, count) ==
    LET n == Len(context.intents)
    IN  SubSeq(context.intents, IF n > count THEN n - count + 1 ELSE 1, n)

InSeq(x, seq) == \E k \in 1..Len(seq) : seq[k] = x

\* The context-free part of IntentClassifier.classify: the first pattern found
\* in msg_low, len(msg_low.split()) and re.search(r'\d+', msg_low)
LexedLow(msg_low) ==
    [pattern |-> FirstPattern(msg_low),
     words |-> SplitCount(msg_low),
     digit |-> \E i \in 1..Len(msg_low) : IsDigit(At(msg_low, i))]

Lexed(message) == LexedLow(Strip(Lower(message)))

\* IntentClassifier.classify on the lexed message
ClassifyLexed(x, context) ==
    IF x.pattern # 0 THEN PATTERNS[x.pattern].intent
    ELSE IF InSeq(Intent.REJECTION, get_recent_intents(context, 2)) /\ x.words > 2
         THEN Intent.SERVICE_INQUIRY
    ELSE IF x.digit THEN Intent.SERVICE_INQUIRY
    ELSE Intent.UNKNOWN

\* IntentClassifier.classify
classify(message, context) == ClassifyLexed(Lexed(message), context)

-----------------------------------------------------------------------------
(* Sentiment analyzer                                                       *)

POSITIVE_WORDS ==
    {"great", "awesome", "perfect", "excellent", "wonderful", "fantastic", "love",
     "amazing", "good", "nice", "thanks", "thank you", "appreciate"}

NEGATIVE_WORDS ==
    {"bad", "terrible", "horrible", "worst", "hate", "awful", "poor", "frustrated",
     "angry", "upset", "disappointed", "useless", "waste"}

\* The decision table without its first two rows: a lead of two or more words
\* scores like a lead of one
SentimentOfCounts_flat(positive_count, negative_count) ==
    IF positive_count > negative_count THEN SentimentScore.POSITIVE
    ELSE IF negative_count > positive_count THEN SentimentScore.NEGATIVE
    ELSE SentimentScore.NEUTRAL

\* The decision table of SentimentAnalyzer.analyze
SentimentOfCounts(positive_count, negative_count) ==
    IF negative_count > positive_count + 1
    THEN (IF negative_count >= 3 THEN SentimentScore.VERY_NEGATIVE
          ELSE SentimentScore.NEGATIVE)
    ELSE IF positive_count > negative_count + 1
    THEN (IF positive_count >= 3 THEN SentimentScore.VERY_POSITIVE
          ELSE SentimentScore.POSITIVE)
    ELSE IF positive_count > negative_count THEN SentimentScore.POSITIVE
    ELSE IF negative_count > positive_count THEN SentimentScore.NEGATIVE
    ELSE SentimentScore.NEUTRAL

\* SentimentAnalyzer.analyze
analyze(message) ==
    LET words == WordRuns(Lower(message))
    IN  SentimentOfCounts(Cardinality(words \cap POSITIVE_WORDS),
                          Cardinality(words \cap NEGATIVE_WORDS))

-----------------------------------------------------------------------------
(* Reference data of app/services.py                                        *)

\* SERVICES: id -> display name, in catalog order
SERVICES ==
    << [key |-> "1", name |-> "Administrative Support"],
       [key |-> "2", name |-> "Social Media Management"],
       [key |-> "3", name |-> "Customer Support"],
       [key |-> "4", name |-> "Email & Calendar Management"],
       [key |-> "5", name |-> "Project Management"],
       [key |-> "6", name |-> "Bookkeeping & Invoicing"],
       [key |-> "7", name |-> "Content Writing & Copy"],
       [key |-> "8", name |-> "Custom Service Package"] >>

\* FAQS: the ids of the FAQ table, in the order of FAQManager.get_all
\* (by descending priority)
FAQS ==
    <<"pricing", "trial", "availability", "security", "tools", "payment",
      "communication", "cancellation">>

\* The texts of the collaborators, kept symbolic
format_services_menu == "<services menu>"
format_service_detail(service_name) == "<service detail: " \o service_name \o ">"
FaqAnswer(faq_key) == "<faq answer: " \o faq_key \o ">"

BOOKING_LINK ==
    "https://calendar.google.com/calendar/r/eventedit?text=Discovery+Call&details=Please+book+a+30-minute+discovery+call+with+Esther&sf=true"

-----------------------------------------------------------------------------
(* Entity extractor                                                         *)

HourWord == Alt(<<Lit("hours"), Lit("hour"), Lit("hrs"), Lit("hr")>>)

\* The four patterns of extract_hours, each as (what precedes the group,
\* what follows it)
HoursPatterns ==
    << [pre |-> Cat(<<>>),
        post |-> Cat(<<Star(Blank), Alt(<<HourWord, Lit("h")>>), Star(Blank),
                       Opt(Alt(<<Lit("per"), Lit("/"), Lit("a")>>)), Star(Blank),
                       Alt(<<Lit("week"), Lit("wk")>>)>>)],
       [pre |-> Cat(<<Alt(<<Lit("need"), Lit("want"), Lit("require")>>), Star(Blank)>>),
        post |-> Cat(<<Star(Blank), HourWord>>)],
       [pre |-> Cat(<<>>),
        post |-> Cat(<<Star(Blank), HourWord>>)],
       [pre |-> WordB,
        post |-> Cat(<<Opt(Cat(<<Star(Blank), Alt(<<Lit("hour"), Lit("hr")>>)>>)), WordB>>)] >>

\* EntityExtractor.extract_hours: the first pattern, in order, whose leftmost
\* match holds a number in [1, 168]
extract_hours(message) ==
    LET low == Lower(message)
        val(k) == SearchGroup1(HoursPatterns[k].pre, HoursPatterns[k].post, low)
        ok == {k \in 1..Len(HoursPatterns) :
                 /\ IsSome(val(k))
                 /\ ParseInt(Get(val(k))) >= 1
                 /\ ParseInt(Get(val(k))) <= 168}
    IN  IF ok = {} THEN None ELSE Some(ParseInt(Get(val(SetMin(ok)))))

Digits3 == Cat(<<Digit, Digit, Digit>>)
Amount == Cat(<<Plus(Digit), Star(Cat(<<Lit(","), Digits3>>))>>)
AmountCents == Cat(<<Amount, Opt(Cat(<<Lit("."), Digit, Digit>>))>>)

BudgetPatterns ==
    << Cat(<<Lit("$"), Star(Blank), AmountCents,
             Opt(Cat(<<Star(Blank), Lit("-"), Star(Blank), Opt(Lit("$")), Star(Blank),
                       AmountCents>>))>>),
       Cat(<<AmountCents, Star(Blank),
             Alt(<<Lit("dollars"), Lit("dollar"), Lit("usd"), Lit("$")>>)>>),
       Cat(<<Alt(<<Lit("up to"), Lit("around"), Lit("about"), Lit("approximately")>>),
             Star(Blank), Opt(Lit("$")), Star(Blank), Amount>>) >>

\* EntityExtractor.extract_budget: the matched text of the first pattern found
extract_budget(message) ==
    LET low == Lower(message)
        hits == {k \in 1..Len(BudgetPatterns) : IsSome(SearchGroup0(BudgetPatterns[k], low))}
    IN  IF hits = {} THEN None ELSE SearchGroup0(BudgetPatterns[SetMin(hits)], low)

\* SYNONYMS of extract_service_preference, in dictionary order
SYNONYMS ==
    << [key |-> "admin", synonyms |-> {"administration", "administrative", "admin support"}],
       [key |-> "social", synonyms |-> {"social media", "sm", "social marketing"}],
       [key |-> "content", synonyms |-> {"content creation", "content writing", "copywriting"}],
       [key |-> "virtual", synonyms |-> {"va", "virtual assistant", "assistant"}] >>

FirstIndex(S) == IF S = {} THEN 0 ELSE SetMin(S)

\* EntityExtractor.extract_service_preference: Some([key, name]) or None
extract_service_preference(message, services) ==
    LET msg_norm == Lower(Strip(message))
        N == 1..Len(services)
        lname(k) == Lower(services[k].name)
        direct == FirstIndex({k \in N : services[k].key = msg_norm})
        exact == FirstIndex({k \in N : lname(k) = msg_norm})
        syn == FirstIndex({j \in 1..Len(SYNONYMS) :
                   /\ \E w \in SYNONYMS[j].synonyms : IsSubstr(w, msg_norm)
                   /\ \E k \in N : IsSubstr(SYNONYMS[j].key, lname(k))})
        bySyn == IF syn = 0 THEN 0
                 ELSE FirstIndex({k \in N : IsSubstr(SYNONYMS[syn].key, lname(k))})
        sub == FirstIndex({k \in N : IsSubstr(lname(k), msg_norm) \/ IsSubstr(msg_norm, lname(k))})
        overlap(k) == Cardinality(WordRuns(msg_norm) \cap WordRuns(lname(k)))
        \* the loop keeps the first entry whose overlap exceeds every earlier one
        best == FirstIndex({k \in N : /\ overlap(k) > 0
                                      /\ \A j \in N : overlap(j) <= overlap(k)})
        pick == IF direct # 0 THEN direct
                ELSE IF exact # 0 THEN exact
                ELSE IF bySyn # 0 THEN bySyn
                ELSE IF sub # 0 THEN sub
                ELSE IF best # 0 /\ overlap(best) >= 2 THEN best
                ELSE 0
    IN  IF pick = 0 THEN None ELSE Some(services[pick])

-----------------------------------------------------------------------------
(* Data model                                                               *)

MessagesMaxlen == 10
IntentsMaxlen == 5
session_timeout == 30

NoSession == [user_id |-> ""]

\* A variant of the bounded append that refuses the new entry when full
DequeAppend_keeps_oldest(q, x, n) == IF Len(q) >= n THEN q ELSE Append(q, x)

\* deque(maxlen = n).append
DequeAppend(q, x, n) == IF Len(q) >= n THEN Append(Tail(q), x) ELSE Append(q, x)

\* ConversationContext()
NewContext ==
    [messages |-> <<>>, intents |-> <<>>, sentiment_scores |-> <<>>,
     topics_discussed |-> {}, clarification_attempts |-> 0]

\* ConversationContext.add_message; intent is None or Some(intent)
add_message(context, role, content, intent, t) ==
    [context EXCEPT
        !.messages = DequeAppend(@, [role |-> role, content |-> content,
                                     timestamp |-> t, intent |-> intent], MessagesMaxlen),
        !.intents = IF IsSome(intent) THEN DequeAppend(@, Get(intent), IntentsMaxlen) ELSE @]

\* ConversationContext.add_sentiment
add_sentiment(context, score) ==
    [context EXCEPT !.sentiment_scores = Append(@, score)]

\* A variant that looks at the sentiment only
is_frustrated_by_sentiment(context) ==
    LET n == Len(context.sentiment_scores)
    IN  IF n < 3 THEN FALSE
        ELSE \A k \in (n - 2)..n : context.sentiment_scores[k] < 0

\* ConversationContext.is_frustrated
is_frustrated(context) ==
    LET n == Len(context.sentiment_scores)
    IN  IF n < 3 THEN FALSE
        ELSE \/ \A k \in (n - 2)..n : context.sentiment_scores[k] < 0
             \/ context.clarification_attempts > 2

\* UserSession(user_id = user_id)
NewSession(user_id, t) ==
    [user_id |-> user_id, state |-> ConversationState.INITIAL,
     created_at |-> t, last_updated |-> t,
     service |-> None, service_key |-> None, hours_per_week |-> None,
     business_type |-> None, budget |-> None,
     message_count |-> 0, error_count |-> 0, context |-> NewContext,
     preferred_response_style |-> "professional", timezone |-> None,
     language_preference |-> "en"]

\* UserSession.update_timestamp
update_timestamp(session, t) ==
    [session EXCEPT !.last_updated = t, !.message_count = @ + 1]

\* UserSession.increment_error
increment_error(session) == [session EXCEPT !.error_count = @ + 1]

\* A variant of reset that clears the slots and the context and leaves the
\* state where it is
reset_keeps_state(session, keep_preferences, t) ==
    [session EXCEPT !.service = None, !.service_key = None,
                    !.hours_per_week = None, !.business_type = None,
                    !.budget = None, !.context = NewContext,
                    !.last_updated = t, !.message_count = @ + 1]

\* UserSession.reset
reset(session, keep_preferences, t) ==
    LET old_style == session.preferred_response_style
        old_tz == session.timezone
        cleared == [session EXCEPT !.state = ConversationState.SERVICE_SELECTION,
                                   !.service = None, !.service_key = None,
                                   !.hours_per_week = None, !.business_type = None,
                                   !.budget = None, !.context = NewContext]
        kept == IF keep_preferences
                THEN [cleared EXCEPT !.preferred_response_style = old_style,
                                     !.timezone = old_tz]
                ELSE cleared
    IN  update_timestamp(kept, t)

\* A variant that already expires a session idle for exactly the timeout
is_session_expired_at_timeout(session, timeout_minutes, t) ==
    t - session.last_updated >= timeout_minutes

\* UserSession.is_session_expired
is_session_expired(session, timeout_minutes, t) ==
    t - session.last_updated > timeout_minutes

-----------------------------------------------------------------------------
(* Session store                                                            *)

\* A variant that, on any access, also drops the expired sessions of the
\* other users
get_or_create_sweeping(S, user_id, t) ==
    [u \in DOMAIN S |->
        IF u = user_id
        THEN IF S[u] # NoSession /\ ~is_session_expired(S[u], session_timeout, t)
             THEN S[u] ELSE NewSession(u, t)
        ELSE IF S[u] # NoSession /\ is_session_expired(S[u], session_timeout, t)
             THEN NoSession ELSE S[u]]

\* SessionManager.get_or_create: the store after the call (the session
\* returned is its entry for user_id)
get_or_create(S, user_id, t) ==
    IF S[user_id] # NoSession
    THEN IF is_session_expired(S[user_id], session_timeout, t)
         THEN [S EXCEPT ![user_id] = NewSession(user_id, t)]
         ELSE S
    ELSE [S EXCEPT ![user_id] = NewSession(user_id, t)]

\* SessionManager.reset_session
reset_session(S, user_id, keep_preferences, t) ==
    LET S1 == get_or_create(S, user_id, t)
    IN  [S1 EXCEPT ![user_id] = reset(S1[user_id], keep_preferences, t)]

\* SessionManager.delete_session
delete_session(S, user_id) == [S EXCEPT ![user_id] = NoSession]

-----------------------------------------------------------------------------
(* Response generator                                                       *)

RECURSIVE Replace(_, _, _)
\* str.replace(old, new): the occurrences of old, from the left, not
\* overlapping
Replace(s, old, new) ==
    LET first == FirstIndex({i \in 1..(Len(s) - Len(old) + 1) :
                                SubSeq(s, i, i + Len(old) - 1) = old})
    IN  IF first = 0 THEN s
        ELSE SubSeq(s, 1, first - 1) \o new
                \o Replace(SubSeq(s, first + Len(old), Len(s)), old, new)

Pleasantry ==
    Cat(<<Alt(<<Lit("Great!"), Lit("Perfect!"), Lit("Awesome!")>>), Star(Blank)>>)

RECURSIVE RemovePleasantries(_)
\* re.sub(r'(Great!|Perfect!|Awesome!)\s*', '', s)
RemovePleasantries(s) ==
    LET first == FirstIndex({i \in 1..Len(s) : Ends(Pleasantry, s, {i}) # {}})
    IN  IF first = 0 THEN s
        ELSE SubSeq(s, 1, first - 1)
                \o RemovePleasantries(
                       SubSeq(s, SetMax(Ends(Pleasantry, s, {first})), Len(s)))

\* ResponseGenerator.generate_empathetic_response
generate_empathetic_response(sentiment, base_message) ==
    LET prefix == IF sentiment = SentimentScore.VERY_NEGATIVE THEN "I understand your frustration. "
                  ELSE IF sentiment = SentimentScore.NEGATIVE THEN "I hear you. "
                  ELSE IF sentiment = SentimentScore.VERY_POSITIVE THEN "I'm so glad to hear that! "
                  ELSE IF sentiment = SentimentScore.POSITIVE THEN "Great! "
                  ELSE ""
    IN  prefix \o base_message

\* ResponseGenerator.format_for_style
format_for_style(message, style) ==
    IF style = "casual"
    THEN Replace(Strip(Replace(message, "Please", "")), "Thank you", "Thanks")
    ELSE IF style = "concise" THEN RemovePleasantries(message)
    ELSE message

-----------------------------------------------------------------------------
(* Inputs                                                                   *)

Users == {"U1", "U2"}

\* free operations after the replayed conversation
MaxSteps == 2

\* The messages a user may send
Messages ==
    {"hi", "1", "yes", "no", "10", "Ecommerce", "$500", "menu", "thank you", "human",
     "restart", "pricing", "terrible", "x", "  ", "", "no thanks", "help",
     "Customer Support", "Your SERVICES?", "security"}

\* The canonical conversation; every prefix of it, and the detour below, is
\* replayed from a fresh store before the free operations begin
Flow == <<"hi", "1", "yes", "10", "Ecommerce", "$500", "yes">>
\* A conversation that goes back to the menu in the middle of the flow and
\* picks a service again
Detour == <<"hi", "1", "yes", "10", "menu", "1">>
\* A conversation that asks for a human in the middle of the flow
Handoff == <<"hi", "1", "yes", "10", "menu", "human">>
SeedScripts == {SubSeq(Flow, 1, n) : n \in 0..Len(Flow)} \cup {Detour, Handoff}

\* The end-to-end scenario: one message of each kind, in the order of Flow.
\* A budget is listed with the text that extract_budget matches in it (the
\* trimmed message when no pattern matches).
Greetings == {"hi", "hello"}
CatalogIds == {"1", "3", "8"}
Confirmations == {"yes", "ok"}
HoursGiven == {"10", "40"}
BusinessGiven == {"Ecommerce", "IT", "Web services"}
BudgetsGiven ==
    {[text |-> "$500", amount |-> "$500"],
     [text |-> "500 USD", amount |-> "500 usd"],
     [text |-> "2000", amount |-> "2000"]}

ScenarioScripts ==
    {<<g, id, c1, h, b, bud.text, c2>> :
        g \in Greetings, id \in CatalogIds, c1 \in Confirmations, h \in HoursGiven,
        b \in BusinessGiven, bud \in BudgetsGiven, c2 \in Confirmations}

\* The clarification scenario: a greeting, then three or four messages, of
\* which some resolve to no service, or a confirmed service followed by
\* three messages, of which some give no hours
ClarifyMessages == {"x", "terrible", "no", "12", "1", "menu", "yes"}
ClarifyScripts ==
    {<<"hi", m1, m2, m3>> : m1, m2, m3 \in ClarifyMessages}
        \cup {<<"hi", m1, m2, m3, m4>> : m1, m2, m3, m4 \in ClarifyMessages}
        \cup {<<"hi", "1", "yes", m1, m2, m3>> : m1, m2, m3 \in ClarifyMessages}

\* The texts given to the classifier: words of every pattern group, alone
\* and in pairs, and the contexts: the intents recorded so far
ClassifyWords ==
    {"hello", "restart", "ok", "no", "no thanks", "human", "support", "help",
     "pricing", "terrible", "7", "we sell shoes"}
ClassifyTexts ==
    ClassifyWords \cup {a \o ", " \o b : a, b \in ClassifyWords} \cup {"  HELLO, No ", "sell shoes", "size 7 shoes"}
ClassifyContexts ==
    {[NewContext EXCEPT !.intents = i] :
        i \in {<<>>, <<Intent.REJECTION>>, <<Intent.REJECTION, Intent.UNKNOWN>>,
               <<Intent.REJECTION, Intent.UNKNOWN, Intent.UNKNOWN>>}}

\* The texts given to extract_hours: a number inside or outside the range,
\* alone, with a unit, inside a sentence, glued to a letter
HoursNumbers == {"0", "1", "10", "168", "169", "500", "1000"}
HoursTexts ==
    UNION {{n, n \o " hours", "I need " \o n \o " hours a week", n \o " HRS/week",
            "need " \o n \o " hr", "about " \o n, n \o "h", "v" \o n,
            n \o "h per week", "  " \o n \o " " } : n \in HoursNumbers}
        \cup {"ten hours", ""}

\* The texts given to extract_service_preference: ids, names, synonyms,
\* parts of names, and words of one or of several names in any order
\* Texts with zero to four distinct words of each lexicon, in both orders, and
\* texts whose lexicon words are repeated, shouted, or only part of a word
PositiveRuns == <<"", "great", "great thanks", "great thanks love",
                  "great thanks love nice">>
NegativeRuns == <<"", "bad", "bad awful", "bad awful worst",
                  "bad awful worst hate">>
SentimentTexts ==
    {PositiveRuns[i] \o " and " \o NegativeRuns[j] : i, j \in DOMAIN PositiveRuns}
    \cup {NegativeRuns[j] \o " but " \o PositiveRuns[i] : i, j \in DOMAIN PositiveRuns}
    \cup {"Great, GREAT, great!!!", "thank you", "thank you, thanks", "badly greatly",
          "BAD! Awful!! Worst!!!", "not bad", "good-bad", "love love hate hate hate",
          "useless waste, poor, upset!", "nice nice nice", "!!!"}

\* The sessions whose replies are personalized: in the middle of a booking,
\* waiting for a yes or no, with each response style
StyledSessions ==
    {[NewSession("U1", 0) EXCEPT
         !.state = state, !.preferred_response_style = style,
         !.service = Some("Customer Support"), !.service_key = Some("3"),
         !.hours_per_week = IF state = ConversationState.CONFIRMATION
                            THEN Some(10) ELSE None,
         !.business_type = IF state = ConversationState.CONFIRMATION
                           THEN Some("Ecommerce") ELSE None,
         !.budget = IF state = ConversationState.CONFIRMATION
                    THEN Some("$500") ELSE None,
         !.message_count = 3,
         !.context = [NewContext EXCEPT !.sentiment_scores = scores,
                                        !.intents = <<Intent.GREETING>>]] :
        state \in {ConversationState.SERVICE_DETAIL, ConversationState.CONFIRMATION},
        style \in {"professional", "casual", "concise"},
        scores \in {<<>>, <<-1>>, <<0, 1>>}}

\* What their users send: neutral, negative, very negative and positive
\* texts, among them a yes and a no
StyledMessages ==
    {"yes", "terrible", "bad awful worst", "great", "great awesome perfect",
     "no, this is bad awful", "yes, bad awful worst", "maybe"}

ServiceTexts ==
    {"3", "9", "customer support", "social media", "bookkeeping", "x",
     "calendar management media", "management of calendar and media",
     "writing package custom content", "management project support customer",
     "calendar email", "package service", "copy content please",
     "media calendar", "project calendar", "support", "management",
     "media management social now", "email or calendar or management",
     "calendar please"}

\* The sessions given to reset: a new one and one in the middle of a
\* booking, with each response style and with and without a timezone
ResetInputs ==
    {[s EXCEPT !.preferred_response_style = style, !.timezone = tz] :
        s \in {NewSession("U1", 0),
               [NewSession("U1", 0) EXCEPT
                   !.state = ConversationState.BUDGET_COLLECTION,
                   !.service = Some("Customer Support"), !.service_key = Some("3"),
                   !.hours_per_week = Some(10), !.business_type = Some("Ecommerce"),
                   !.message_count = 4,
                   !.context = [NewContext EXCEPT !.sentiment_scores = <<0, 0, -1, 0>>,
                                                  !.intents = <<Intent.GREETING>>,
                                                  !.topics_discussed = {"Customer Support"},
                                                  !.clarification_attempts = 1]]},
        style \in {"professional", "casual", "concise"},
        tz \in {None, Some("UTC")}}

\* The messages of two calls that run at the same time
ConcMessages == {"1", "yes", "10", "restart"}

\* How far the clock may jump in one step: up to the timeout, and past it
TickAmounts == {session_timeout, session_timeout + 1}

-----------------------------------------------------------------------------
(* What the analyzers find in a message.  The findings depend on the text  *)
(* only, so they are computed once for every text the users send and looked *)
(* up afterwards; any other text is analyzed on the spot.                  *)

\* The first FAQ key, in table order, contained in msg_low; 0 when none is
FirstFaq(msg_low) == FirstIndex({k \in 1..Len(FAQS) : IsSubstr(FAQS[k], msg_low)})

\* The tests _handle_global_commands makes on msg_low
Commands(msg_low) ==
    [menu |-> IsSubstr("menu", msg_low) \/ IsSubstr("services", msg_low),
     thank |-> IsSubstr("thank", msg_low),
     faq |-> FirstFaq(msg_low)]

Analysis(message) ==
    [lexed |-> Lexed(message),
     sentiment |-> analyze(message),
     service |-> extract_service_preference(message, SERVICES),
     hours |-> extract_hours(message),
     budget |-> extract_budget(message),
     commands |-> Commands(Strip(Lower(message))),
     \* "menu" in message.lower(), of the Completed case
     menu_lower |-> IsSubstr("menu", Lower(message)),
     stripped |-> Strip(message)]

\* The texts handle_message passes on: the messages, trimmed
Texts ==
    {Strip(m) : m \in Messages \cup Greetings \cup CatalogIds \cup Confirmations
                      \cup HoursGiven \cup BusinessGiven
                      \cup {bud.text : bud \in BudgetsGiven} \cup ConcMessages
                      \cup ClarifyMessages \cup StyledMessages}

AnalysisTable == [m \in Texts |-> Analysis(m)]

Analyzed(message) ==
    IF message \in Texts THEN AnalysisTable[message] ELSE Analysis(message)

-----------------------------------------------------------------------------
(* State handlers: each yields the session as the handler leaves it, the   *)
(* reply and the next state.  a is Analyzed(message).                      *)

Result(session, response, next_state) ==
    [session |-> session, response |-> response, next_state |-> next_state]

\* str() of an optional text or number inside an f-string
Fmt(o) == IF IsSome(o) THEN Get(o) ELSE "None"
FmtInt(o) == IF IsSome(o) THEN ToString(Get(o)) ELSE "None"

HandoffAck ==
    "I'll connect you with our team!\n\nA team member will reach out to you shortly via this number.\nTypical response time: 2-4 hours during business hours.\n\nIn the meantime, would you like me to continue helping you, or would you prefer to wait for human assistance?"

\* StateHandler.handle_human_request
handle_human_request(session) ==
    Result(session, HandoffAck, ConversationState.HUMAN_HANDOFF)

\* A variant of the clarification that neither counts nor escalates
Clarify_stuck(session) ==
    Result(session,
           "I didn't quite catch which service you'd like.\n\nType the *number* or *name* from the menu, like '1' or 'Admin Support'.",
           ConversationState.SERVICE_SELECTION)

\* The clarification of ServiceSelectionHandler.handle: the message resolved
\* to no service
Clarify(session) ==
    LET attempts == session.context.clarification_attempts + 1
    IN  Result([session EXCEPT !.context.clarification_attempts = attempts],
               IF attempts = 1
               THEN "I didn't quite catch which service you'd like.\n\nType the *number* or *name* from the menu, like '1' or 'Admin Support'."
               ELSE IF attempts = 2
               THEN "Let me show you the menu again:\n\n" \o format_services_menu
                        \o "\n\nJust reply with the number (like 1, 2, or 3)."
               ELSE "I'm having trouble understanding which service you need.\n\nWould you like to speak with a team member? Reply *YES* for human help, or try selecting a service number from the menu.",
               ConversationState.SERVICE_SELECTION)

\* ServiceSelectionHandler.handle
ServiceSelectionHandler(session, message, intent, a, t) ==
    IF intent = Intent.HUMAN_REQUEST THEN handle_human_request(session)
    ELSE IF intent = Intent.RESTART
    THEN Result(reset(session, TRUE, t), format_services_menu,
                ConversationState.SERVICE_SELECTION)
    ELSE IF IsSome(a.service)
    THEN Result([session EXCEPT
                    !.service = Some(Get(a.service).name),
                    !.service_key = Some(Get(a.service).key),
                    !.context.topics_discussed = @ \cup {Get(a.service).name}],
                format_service_detail(Get(a.service).name),
                ConversationState.SERVICE_DETAIL)
    ELSE Clarify(session)

\* A variant that keeps the clarification counter and the service key
ServiceDetailHandler_keeps(session, message, intent, a, t) ==
    IF intent = Intent.CONFIRMATION
    THEN Result(session,
                "Great choice!\n\nHow many *hours per week* would you like for this service?\n(Please provide a number between 1-40 hours)",
                ConversationState.HOURS_COLLECTION)
    ELSE IF intent = Intent.REJECTION
    THEN Result([session EXCEPT !.service = None],
                "No problem! Let's choose a different service.\n\n" \o format_services_menu,
                ConversationState.SERVICE_SELECTION)
    ELSE Result(session,
                "Please reply:\n* *YES* to proceed with this service\n* *NO* to choose a different service",
                ConversationState.SERVICE_DETAIL)

\* ServiceDetailHandler.handle
ServiceDetailHandler(session, message, intent, a, t) ==
    IF intent = Intent.CONFIRMATION
    THEN Result([session EXCEPT !.context.clarification_attempts = 0],
                "Great choice!\n\nHow many *hours per week* would you like for this service?\n(Please provide a number between 1-40 hours)",
                ConversationState.HOURS_COLLECTION)
    ELSE IF intent = Intent.REJECTION
    THEN Result([session EXCEPT !.service = None, !.service_key = None],
                "No problem! Let's choose a different service.\n\n" \o format_services_menu,
                ConversationState.SERVICE_SELECTION)
    ELSE Result(session,
                "Please reply:\n* *YES* to proceed with this service\n* *NO* to choose a different service",
                ConversationState.SERVICE_DETAIL)

\* A variant that offers the multiple-choice help one attempt later
HoursCollectionHandler_helps_late(session, message, intent, a, t) ==
    IF IsSome(a.hours) /\ Get(a.hours) # 0
    THEN Result([session EXCEPT !.hours_per_week = a.hours,
                                !.context.clarification_attempts = 0],
                "Perfect! " \o ToString(Get(a.hours))
                    \o " hours per week noted.\n\nWhat *type of business* do you run?\n(e.g., E-commerce, Coaching, SaaS, Local Business, Agency)",
                ConversationState.BUSINESS_TYPE)
    ELSE LET attempts == session.context.clarification_attempts + 1
         IN  Result([session EXCEPT !.context.clarification_attempts = attempts],
                    IF attempts > 3
                    THEN "I'm having trouble understanding the hours you need.\n\nLet me ask differently: Do you need:\n* Part-time support (5-20 hours/week)?\n* Full-time support (30-40 hours/week)?\n* Just a few hours (1-10 hours/week)?"
                    ELSE "Please provide a valid number of hours.\n\nExample: Type '10' for 10 hours per week\n(Between 1-40 hours recommended)",
                    ConversationState.HOURS_COLLECTION)

\* HoursCollectionHandler.handle
HoursCollectionHandler(session, message, intent, a, t) ==
    IF IsSome(a.hours) /\ Get(a.hours) # 0
    THEN Result([session EXCEPT !.hours_per_week = a.hours,
                                !.context.clarification_attempts = 0],
                "Perfect! " \o ToString(Get(a.hours))
                    \o " hours per week noted.\n\nWhat *type of business* do you run?\n(e.g., E-commerce, Coaching, SaaS, Local Business, Agency)",
                ConversationState.BUSINESS_TYPE)
    ELSE LET attempts == session.context.clarification_attempts + 1
         IN  Result([session EXCEPT !.context.clarification_attempts = attempts],
                    IF attempts > 2
                    THEN "I'm having trouble understanding the hours you need.\n\nLet me ask differently: Do you need:\n* Part-time support (5-20 hours/week)?\n* Full-time support (30-40 hours/week)?\n* Just a few hours (1-10 hours/week)?"
                    ELSE "Please provide a valid number of hours.\n\nExample: Type '10' for 10 hours per week\n(Between 1-40 hours recommended)",
                    ConversationState.HOURS_COLLECTION)

\* BusinessTypeHandler.handle
BusinessTypeHandler(session, message, intent, a, t) ==
    IF Len(a.stripped) < 2
    THEN Result(session,
                "Please tell me about your business.\n\nExamples: E-commerce Store, Coaching Business, SaaS Company, Local Retail",
                ConversationState.BUSINESS_TYPE)
    ELSE Result([session EXCEPT !.business_type = Some(a.stripped),
                                !.context.clarification_attempts = 0],
                "Got it - " \o message
                    \o "!\n\nWhat is your *monthly budget* for this service?\n(e.g., $500-$1000, $2000+, or just type an amount)",
                ConversationState.BUDGET_COLLECTION)

\* The confirmation summary of BudgetCollectionHandler.handle
Summary(session) ==
    "*Booking Summary*\nService: *" \o Fmt(session.service)
        \o "*\nHours/Week: *" \o FmtInt(session.hours_per_week)
        \o "*\nBusiness: *" \o Fmt(session.business_type)
        \o "*\nBudget: *" \o Fmt(session.budget)
        \o "*\n\nDoes everything look correct?\nReply *YES* to confirm and get your booking link."

\* A variant that accepts free text of any length as the budget
BudgetOrText_any_length(a) ==
    IF ~(IsSome(a.budget) /\ Get(a.budget) # "") THEN Some(a.stripped) ELSE a.budget

\* `if not budget and len(message.strip()) >= 2: budget = message.strip()`
BudgetOrText(a) ==
    IF ~(IsSome(a.budget) /\ Get(a.budget) # "") /\ Len(a.stripped) >= 2
    THEN Some(a.stripped)
    ELSE a.budget

\* BudgetCollectionHandler.handle once the budget is settled
BudgetSettled(session, budget) ==
    IF IsSome(budget) /\ Get(budget) # ""
    THEN Result([session EXCEPT !.budget = budget, !.context.clarification_attempts = 0],
                Summary([session EXCEPT !.budget = budget]), ConversationState.CONFIRMATION)
    ELSE Result(session,
                "Please provide your budget range.\n\nExamples:\n* $500-$1000\n* Around $2000/month\n* Up to $5000",
                ConversationState.BUDGET_COLLECTION)

\* BudgetCollectionHandler.handle
BudgetCollectionHandler(session, message, intent, a, t) ==
    BudgetSettled(session, BudgetOrText(a))

ConfirmReprompt ==
    "Please reply:\n* *YES* to confirm and receive booking link\n* *NO* to start over"

\* A variant that asks again instead of completing the booking
ConfirmationHandler_asks_again(session, message, intent, a, t) ==
    Result(session, ConfirmReprompt, ConversationState.CONFIRMATION)

\* A variant that goes back to the menu on a rejection and keeps the data
ConfirmationHandler_keeps_data(session, message, intent, a, t) ==
    IF intent = Intent.REJECTION
    THEN Result(session,
                "No worries! I've cleared your information.\n\n" \o format_services_menu,
                ConversationState.SERVICE_SELECTION)
    ELSE ConfirmationHandler_asks_again(session, message, intent, a, t)

\* ConfirmationHandler.handle
ConfirmationHandler(session, message, intent, a, t) ==
    IF intent = Intent.CONFIRMATION
    THEN Result(session,
                "*Perfect! You're all set!*\n\nBook your discovery call here:\n" \o BOOKING_LINK
                    \o "\n\n*What happens next?*\n1. Schedule your call using the link above\n2. We'll discuss your needs in detail\n3. Get a customized proposal\n\nNeed to speak with someone now? Just reply and our team will follow up!\n\nType *MENU* anytime to start over.",
                ConversationState.COMPLETED)
    ELSE IF intent = Intent.REJECTION
    THEN Result(reset(session, TRUE, t),
                "No worries! I've cleared your information.\n\n" \o format_services_menu,
                ConversationState.SERVICE_SELECTION)
    ELSE Result(session, ConfirmReprompt, ConversationState.CONFIRMATION)

\* ConversationManager.handlers: the states that have a handler
HandlerStates ==
    {ConversationState.SERVICE_SELECTION, ConversationState.SERVICE_DETAIL,
     ConversationState.HOURS_COLLECTION, ConversationState.BUSINESS_TYPE,
     ConversationState.BUDGET_COLLECTION, ConversationState.CONFIRMATION}

\* handler.handle for the handler registered for the session's state
Handle(session, message, intent, a, t) ==
    CASE session.state = ConversationState.SERVICE_SELECTION ->
             ServiceSelectionHandler(session, message, intent, a, t)
      [] session.state = ConversationState.SERVICE_DETAIL ->
             ServiceDetailHandler(session, message, intent, a, t)
      [] session.state = ConversationState.HOURS_COLLECTION ->
             HoursCollectionHandler(session, message, intent, a, t)
      [] session.state = ConversationState.BUSINESS_TYPE ->
             BusinessTypeHandler(session, message, intent, a, t)
      [] session.state = ConversationState.BUDGET_COLLECTION ->
             BudgetCollectionHandler(session, message, intent, a, t)
      [] session.state = ConversationState.CONFIRMATION ->
             ConfirmationHandler(session, message, intent, a, t)

-----------------------------------------------------------------------------
(* Orchestrator                                                             *)

WelcomeMenu == "Welcome! I'm your Virtual Assistant.\n\n" \o format_services_menu
EmptyPrompt == "Please send a message to continue. Type *MENU* for options."
LlmSorry == "Sorry, I didn't understand that. Type *AGENT* to speak with Esther."

\* A variant of the greeting command that leaves the state alone
GreetingCommand_keeps_state(session) ==
    [session |-> session, response |-> Some(WelcomeMenu)]

\* The greeting command of _handle_global_commands
GreetingCommand(session) ==
    [session |-> [session EXCEPT !.state = ConversationState.SERVICE_SELECTION],
     response |-> Some(WelcomeMenu)]

\* A variant of the menu command that empties the slots as well
MenuCommand_clears_slots(session) ==
    [session |-> [session EXCEPT !.state = ConversationState.SERVICE_SELECTION,
                                 !.service = None, !.service_key = None,
                                 !.hours_per_week = None, !.business_type = None,
                                 !.budget = None],
     response |-> Some(format_services_menu)]

\* The menu command of _handle_global_commands
MenuCommand(session) ==
    [session |-> [session EXCEPT !.state = ConversationState.SERVICE_SELECTION],
     response |-> Some(format_services_menu)]

ThanksReply == "You're very welcome!\n\nNeed anything else? Type *MENU* to see options."

\* A variant of the thank command that goes back to the menu state
ThankCommand_to_menu(session) ==
    [session |-> [session EXCEPT !.state = ConversationState.SERVICE_SELECTION],
     response |-> Some(ThanksReply)]

\* The thank command of _handle_global_commands
ThankCommand(session) == [session |-> session, response |-> Some(ThanksReply)]

\* A variant of the FAQ command that parks the session in the FAQ mode
FaqCommand_enters_mode(message, session, a, t) ==
    [session |-> [session EXCEPT
                     !.state = ConversationState.FAQ_MODE,
                     !.context = add_message(@, "user", message, Some(Intent.FAQ), t)],
     response |-> Some(FaqAnswer(FAQS[a.commands.faq]))]

\* A variant of the FAQ command that records nothing in the context
FaqCommand_unrecorded(message, session, a, t) ==
    [session |-> session, response |-> Some(FaqAnswer(FAQS[a.commands.faq]))]

\* The FAQ command of _handle_global_commands
FaqCommand(message, session, a, t) ==
    [session |-> [session EXCEPT
                     !.context = add_message(@, "user", message, Some(Intent.FAQ), t)],
     response |-> Some(FaqAnswer(FAQS[a.commands.faq]))]

\* ConversationManager._handle_global_commands: the session as the
\* interceptor leaves it and its reply (None: no interception)
handle_global_commands(message, session, intent, a, t) ==
    IF intent = Intent.GREETING THEN GreetingCommand(session)
    ELSE IF a.commands.menu THEN MenuCommand(session)
    ELSE IF a.commands.thank THEN ThankCommand(session)
    ELSE IF a.commands.faq # 0 THEN FaqCommand(message, session, a, t)
    ELSE IF is_frustrated(session.context)
    THEN [session |-> session,
          response |-> Some("I sense you might be frustrated. I'm here to help!\n\nWould you like to:\n* Speak with a team member? (Reply *HUMAN*)\n* Start fresh? (Reply *RESTART*)\n* See the menu again? (Reply *MENU*)")]
    ELSE [session |-> session, response |-> None]

\* ConversationManager._analyze_and_log
analyze_and_log(session, message, intent, a, t) ==
    [session EXCEPT
        !.context = add_message(add_sentiment(@, a.sentiment),
                                "user", message, Some(intent), t)]

\* The sentiment the personalization reads back from the context
LastSentiment(scores) == IF scores # <<>> THEN scores[Len(scores)] ELSE 0

\* A variant of the personalization that rewrites for the style first and
\* puts the empathy phrase in front afterwards
Personalize_style_first(session, response) ==
    IF LastSentiment(session.context.sentiment_scores) < 0
    THEN generate_empathetic_response(
             LastSentiment(session.context.sentiment_scores),
             format_for_style(response, session.preferred_response_style))
    ELSE format_for_style(response, session.preferred_response_style)

\* The personalization of a handler's reply in handle_message
Personalize(session, response) ==
    format_for_style(
        IF LastSentiment(session.context.sentiment_scores) < 0
        THEN generate_empathetic_response(
                 LastSentiment(session.context.sentiment_scores), response)
        ELSE response,
        session.preferred_response_style)

\* `session.context.add_message("assistant", response); return response`;
\* route names the branch of handle_message that produced the reply
Say(session, response, route, t) ==
    [session |-> [session EXCEPT
                     !.context = add_message(@, "assistant", response, None, t)],
     response |-> response,
     route |-> route]

\* handle_message from the handler's return to its own
AfterHandle(h, t) ==
    Say([h.session EXCEPT !.state = h.next_state],
        Personalize(h.session, h.response), "handler", t)

\* A variant of the HumanHandoff case that resumes the bot whatever the intent
HandoffCase_always_resumes(session, intent, t) ==
    Say([session EXCEPT !.state = ConversationState.SERVICE_SELECTION],
        "Great! Let me help you right now.\n\n" \o format_services_menu,
        "handoff", t)

\* The HumanHandoff case of handle_message
HandoffCase(session, intent, t) ==
    IF intent = Intent.CONFIRMATION
    THEN Say(session,
             "Perfect!\n\nOur team has been notified and will reach out shortly.\nYou'll receive a message within 2-4 business hours.\n\nFeel free to close this chat. We'll contact you soon!",
             "handoff", t)
    ELSE Say([session EXCEPT !.state = ConversationState.SERVICE_SELECTION],
             "Great! Let me help you right now.\n\n" \o format_services_menu,
             "handoff", t)

\* A variant of the fallback that shows the menu and keeps the session
UnknownState_keeps_session(session, t) ==
    Say([session EXCEPT !.state = ConversationState.SERVICE_SELECTION],
        "Something went wrong. Let's start fresh.\n\n" \o format_services_menu,
        "unknown_state", t)

\* The fallback of handle_message for a state without handler
UnknownState(session, t) ==
    Say(reset(session, TRUE, t),
        "Something went wrong. Let's start fresh.\n\n" \o format_services_menu,
        "unknown_state", t)

\* handle_message once the interceptor has passed the message on: the
\* Completed and HumanHandoff cases, the state handler, the unknown state
Dispatch(session, message, intent, a, t) ==
    IF session.state = ConversationState.COMPLETED
    THEN IF intent = Intent.RESTART \/ a.menu_lower
         THEN Say(reset(session, TRUE, t), format_services_menu, "completed", t)
         ELSE Say(session,
                  "Your booking is complete!\n\nBooking link: " \o BOOKING_LINK
                      \o "\n\nType *MENU* to start a new request.",
                  "completed", t)
    ELSE IF session.state = ConversationState.HUMAN_HANDOFF
    THEN HandoffCase(session, intent, t)
    ELSE IF session.state \in HandlerStates
    THEN AfterHandle(Handle(session, message, intent, a, t), t)
    ELSE UnknownState(session, t)

\* `if global_response: ... return global_response`, else the dispatch
AfterGlobal(g, message, intent, a, t) ==
    IF IsSome(g.response) /\ Get(g.response) # ""
    THEN Say(g.session, Get(g.response), "global", t)
    ELSE Dispatch(g.session, message, intent, a, t)

\* handle_message after _analyze_and_log: the interceptor, then the dispatch
Respond(session, message, intent, a, t) ==
    AfterGlobal(handle_global_commands(message, session, intent, a, t),
                message, intent, a, t)

\* handle_message from the classification to the return, on the session
\* that update_timestamp has stamped
Classified(session, message, intent, a, t) ==
    [done |-> Respond(analyze_and_log(session, message, intent, a, t),
                      message, intent, a, t),
     intent |-> intent]

\* handle_message from update_timestamp to the return, on the session that
\* get_or_create returned
Converse(session0, message, a, t) ==
    Classified(update_timestamp(session0, t), message,
               ClassifyLexed(a.lexed, update_timestamp(session0, t).context), a, t)

\* app.ai.llm_fallback by the outcome of the HTTP call: no token configured,
\* a generated text, an error body, an unexpected body, a failed request.
\* It catches every failure itself and returns a text.
LlmOutcomes == {"no_token", "generated", "error", "unexpected", "exception"}
llm_fallback(user_message, outcome) ==
    [raised |-> FALSE, text |-> IF outcome = "generated" THEN "<generated text>" ELSE LlmSorry]

\* Where a failure is raised inside the try block of handle_message
FaultPoints == {"none", "get_or_create", "classify", "dispatch", "personalize"}

\* The session when a state handler has returned and its reply is about to
\* be personalized: session.state is not yet assigned
HandlerReturned(session, message, intent, a, t) ==
    Handle(handle_global_commands(
               message, analyze_and_log(session, message, intent, a, t),
               intent, a, t).session,
           message, intent, a, t).session

\* What handle_message hands back: the store, the reply, whether a failure
\* left the call, the branch taken and the intent if one was classified
Returned(S, reply, route, intent) ==
    [sessions |-> S, raised |-> FALSE, reply |-> reply, route |-> route, intent |-> intent]
Raised(S) ==
    [sessions |-> S, raised |-> TRUE, reply |-> "", route |-> "raised", intent |-> None]

\* The store and the return once the conversation step c is done
Stored(S1, user_id, c) ==
    Returned([S1 EXCEPT ![user_id] = c.done.session], c.done.response, c.done.route,
             Some(c.intent))

\* A variant of the empty-message return that fetches or creates the session
\* first
EmptyReturn_after_fetch(S, user_id, t) ==
    Returned(get_or_create(S, user_id, t), EmptyPrompt, "empty", None)

\* `if not message: return "Please send a message ..."`
EmptyReturn(S, user_id, t) == Returned(S, EmptyPrompt, "empty", None)

\* The try block of handle_message on the trimmed message
TryBlock(S, user_id, message, a, fault, t) ==
    LET S1 == get_or_create(S, user_id, t)
        stamped == [S1 EXCEPT ![user_id] = update_timestamp(@, t)]
    IN  IF message = "" THEN EmptyReturn(S, user_id, t)
        ELSE IF fault = "get_or_create" THEN Raised(S)
        ELSE IF fault = "classify" THEN Raised(stamped)
        ELSE IF fault = "dispatch"
        THEN Raised([stamped EXCEPT ![user_id] =
                        analyze_and_log(@, message, ClassifyLexed(a.lexed, @.context), a, t)])
        ELSE IF fault = "personalize"
                /\ Converse(S1[user_id], message, a, t).done.route = "handler"
        THEN Raised([stamped EXCEPT ![user_id] =
                        HandlerReturned(@, message, ClassifyLexed(a.lexed, @.context), a, t)])
        ELSE Stored(S1, user_id, Converse(S1[user_id], message, a, t))

\* The session after `if session: session.increment_error()`
ErrorCounted(S, user_id) ==
    IF S[user_id] # NoSession THEN [S EXCEPT ![user_id] = increment_error(@)] ELSE S

\* The inner try of the except branch on the outcome of llm_fallback
Fallback(S, user_id, llm, t) ==
    IF llm.raised THEN Returned(S, "I encountered an error. Please try again.\nType *MENU* to see options or reply *HUMAN* for assistance.", "error", None)
    ELSE Returned(IF S[user_id] # NoSession
                  THEN [S EXCEPT ![user_id].context =
                           add_message(@, "assistant", llm.text, Some(Intent.UNKNOWN), t)]
                  ELSE S,
                  llm.text, "error", None)

\* The except branch of handle_message
OnException(S, user_id, message, outcome, t) ==
    Fallback(ErrorCounted(S, user_id), user_id, llm_fallback(message, outcome), t)

\* try ... except of handle_message
Caught(body, user_id, message, outcome, t) ==
    IF body.raised THEN OnException(body.sessions, user_id, message, outcome, t)
    ELSE body

\* A variant without the except branch
handle_message_unguarded(S, user_id, raw, fault, outcome, t) ==
    TryBlock(S, user_id, Strip(raw), Analyzed(Strip(raw)), fault, t)

\* ConversationManager.handle_message: the store after the call, the reply,
\* and whether a failure reached the caller
handle_message(S, user_id, raw, fault, outcome, t) ==
    Caught(TryBlock(S, user_id, Strip(raw), Analyzed(Strip(raw)), fault, t),
           user_id, Strip(raw), outcome, t)

-----------------------------------------------------------------------------
(* Sequential behaviour: one operation runs from start to finish            *)

EmptyStore == [u \in Users |-> NoSession]

NoOp == [op |-> "none", user |-> "", message |-> "", fault |-> "none",
         outcome |-> "generated", reply |-> "", raised |-> FALSE, route |-> "",
         intent |-> None, pre |-> EmptyStore, at |-> 0,
         context |-> NewContext, value |-> None, arg |-> None]

\* No call is in flight
Idle == /\ heap = <<>>
        /\ store = [u \in Users |-> 0]
        /\ thr = <<>>

\* A fresh store and a conversation to replay
Fresh(scripts) ==
    /\ sessions = EmptyStore
    /\ now = 0
    /\ script \in {[msgs |-> s, pos |-> 1, caught |-> FALSE] : s \in scripts}
    /\ steps = 0
    /\ last = NoOp
    /\ Idle

Init == Fresh(SeedScripts)

Replaying == script.pos <= Len(script.msgs)

\* The effect of a handle_message call that returned r
Effect(r, user_id, raw, fault, outcome) ==
    /\ sessions' = r.sessions
    /\ last' = [op |-> "handle", user |-> user_id, message |-> raw, fault |-> fault,
                outcome |-> outcome, reply |-> r.reply, raised |-> r.raised,
                route |-> r.route, intent |-> r.intent, pre |-> sessions, at |-> now,
                context |-> NewContext, value |-> None, arg |-> None]

Handled(user_id, raw, fault, outcome) ==
    Effect(handle_message(sessions, user_id, raw, fault, outcome, now),
           user_id, raw, fault, outcome)

\* The next message of the replayed conversation, sent by U1; caught records
\* whether the interceptor answered a message after the first
Replay ==
    /\ Replaying
    /\ Handled("U1", script.msgs[script.pos], "none", "generated")
    /\ script' = [script EXCEPT !.pos = @ + 1,
                                !.caught = @ \/ (script.pos > 1 /\ last'.route = "global")]
    /\ UNCHANGED <<now, steps, heap, store, thr>>

\* A free operation may start
Free == ~Replaying /\ steps < MaxSteps

\* A user sends a message and handle_message runs to its return
Receive(user_id, raw) ==
    /\ Free
    /\ Handled(user_id, raw, "none", "generated")
    /\ steps' = steps + 1
    /\ UNCHANGED <<now, script, heap, store, thr>>

\* Time passes; nothing runs
Tick(d) ==
    /\ Free
    /\ now' = now + d
    /\ steps' = steps + 1
    /\ last' = [NoOp EXCEPT !.op = "tick", !.pre = sessions, !.at = now]
    /\ UNCHANGED <<sessions, script, heap, store, thr>>

\* SessionManager.get_or_create(user_id)
GetOrCreate(user_id) ==
    /\ Free
    /\ sessions' = get_or_create(sessions, user_id, now)
    /\ steps' = steps + 1
    /\ last' = [NoOp EXCEPT !.op = "access", !.user = user_id, !.pre = sessions, !.at = now]
    /\ UNCHANGED <<now, script, heap, store, thr>>

\* reset_user_session(user_id, keep_preferences)
ResetSession(user_id, keep_preferences) ==
    /\ Free
    /\ sessions' = reset_session(sessions, user_id, keep_preferences, now)
    /\ steps' = steps + 1
    /\ last' = [NoOp EXCEPT !.op = "reset", !.user = user_id, !.pre = sessions, !.at = now]
    /\ UNCHANGED <<now, script, heap, store, thr>>

\* SessionManager.delete_session(user_id)
DeleteSession(user_id) ==
    /\ Free
    /\ sessions' = delete_session(sessions, user_id)
    /\ steps' = steps + 1
    /\ last' = [NoOp EXCEPT !.op = "delete", !.user = user_id, !.pre = sessions, !.at = now]
    /\ UNCHANGED <<now, script, heap, store, thr>>

Next ==
    \/ Replay
    \/ \E u \in Users, m \in Messages : Receive(u, m)
    \/ \E d \in TickAmounts : Tick(d)
    \/ \E u \in Users : GetOrCreate(u)
    \/ \E u \in Users, k \in BOOLEAN : ResetSession(u, k)
    \/ \E u \in Users : DeleteSession(u)

Spec == Init /\ [][Next]_vars

-----------------------------------------------------------------------------
(* The end-to-end scenario: every conversation of ScenarioScripts, replayed *)
(* against a fresh store                                                    *)

InitScenario == Fresh(ScenarioScripts)

NextScenario == Replay

SpecScenario == InitScenario /\ [][NextScenario]_vars

-----------------------------------------------------------------------------
(* The clarification scenario: every conversation of ClarifyScripts,        *)
(* replayed against a fresh store                                           *)

InitClarify == Fresh(ClarifyScripts)

NextClarify == Replay

SpecClarify == InitClarify /\ [][NextClarify]_vars

-----------------------------------------------------------------------------
(* The analyzers on their own: one of them is applied to a text (and a      *)
(* context); the call and its result are kept in last                       *)

\* No analyzer has been applied yet: each behaviour is one call
Unapplied == last.op = "none"

\* IntentClassifier.classify(message, context)
Classify(message, context) ==
    /\ Unapplied
    /\ last' = [NoOp EXCEPT !.op = "classify", !.message = message,
                            !.context = context,
                            !.intent = Some(classify(message, context))]
    /\ UNCHANGED <<sessions, now, script, steps, heap, store, thr>>

\* EntityExtractor.extract_hours(message)
ExtractHours(message) ==
    /\ Unapplied
    /\ last' = [NoOp EXCEPT !.op = "extract_hours", !.message = message,
                            !.value = extract_hours(message)]
    /\ UNCHANGED <<sessions, now, script, steps, heap, store, thr>>

\* EntityExtractor.extract_service_preference(message, SERVICES)
ExtractService(message) ==
    /\ Unapplied
    /\ last' = [NoOp EXCEPT !.op = "extract_service_preference", !.message = message,
                            !.value = extract_service_preference(message, SERVICES)]
    /\ UNCHANGED <<sessions, now, script, steps, heap, store, thr>>

\* UserSession.reset(keep_preferences) on a session of ResetInputs
SessionReset(session, keep_preferences) ==
    /\ Unapplied
    /\ last' = [NoOp EXCEPT !.op = "session.reset",
                            !.arg = Some([session |-> session,
                                          keep_preferences |-> keep_preferences]),
                            !.value = Some(reset(session, keep_preferences, now))]
    /\ UNCHANGED <<sessions, now, script, steps, heap, store, thr>>

\* SentimentAnalyzer.analyze(message)
Analyze(message) ==
    /\ Unapplied
    /\ last' = [NoOp EXCEPT !.op = "analyze", !.message = message,
                            !.value = Some(analyze(message))]
    /\ UNCHANGED <<sessions, now, script, steps, heap, store, thr>>

\* handle_message for U1, whose session is one of StyledSessions
HandleStyled(session, message, fault) ==
    LET S == [EmptyStore EXCEPT !["U1"] = session]
        r == handle_message(S, "U1", message, fault, "generated", now)
    IN  /\ Unapplied
        /\ sessions' = r.sessions
        /\ last' = [NoOp EXCEPT
                       !.op = "handle", !.user = "U1", !.message = message,
                       !.fault = fault, !.pre = S, !.at = now, !.reply = r.reply,
                       !.raised = r.raised, !.route = r.route, !.intent = r.intent]
        /\ UNCHANGED <<now, script, steps, heap, store, thr>>

InitAnalyzers == Fresh({<<>>})

NextAnalyzers ==
    \/ \E m \in ClassifyTexts, c \in ClassifyContexts : Classify(m, c)
    \/ \E m \in HoursTexts : ExtractHours(m)
    \/ \E m \in ServiceTexts : ExtractService(m)
    \/ \E s \in ResetInputs, k \in BOOLEAN : SessionReset(s, k)
    \/ \E m \in SentimentTexts : Analyze(m)
    \/ \E s \in StyledSessions, m \in StyledMessages :
          \E f \in {"none", "personalize"} : HandleStyled(s, m, f)

SpecAnalyzers == InitAnalyzers /\ [][NextAnalyzers]_vars

-----------------------------------------------------------------------------
(* Faults: a failure may be raised inside the try block of handle_message,  *)
(* and the generative fallback may end in each of its outcomes              *)

\* A user sends a message; the handling may fail at a fault point
ReceiveFaulty(user_id, raw, fault, outcome) ==
    /\ Free
    /\ Handled(user_id, raw, fault, outcome)
    /\ steps' = steps + 1
    /\ UNCHANGED <<now, script, heap, store, thr>>

\* The messages sent while faults are injected, and the conversations
\* replayed before
FaultMessages == {"hi", "  ", "yes"}
FaultSeeds == {<<>>, SubSeq(Flow, 1, Len(Flow) - 1), Flow}

InitFault == Fresh(FaultSeeds)

NextFault ==
    \/ Replay
    \/ \E u \in Users, m \in FaultMessages, f \in FaultPoints :
          \E o \in (IF f = "none" THEN {"generated"} ELSE LlmOutcomes) :
              ReceiveFaulty(u, m, f, o)
    \/ \E d \in TickAmounts : Tick(d)
    \/ \E u \in Users, k \in BOOLEAN : ResetSession(u, k)

SpecFault == InitFault /\ [][NextFault]_vars

-----------------------------------------------------------------------------
(* Concurrent behaviour: the webhook is a plain `def` endpoint, so two       *)
(* requests run handle_message on two threads of the server's pool.  The     *)
(* session objects live on a heap, _sessions maps a user id to an object id, *)
(* and a thread may be preempted between any two statements.  No statement   *)
(* of handle_message or get_or_create takes a lock.                          *)

Calls == {"A", "B"}

\* The store after the messages msgs of user_id have been handled in turn
RECURSIVE RunAll(_, _, _, _)
RunAll(S, user_id, msgs, t) ==
    IF msgs = <<>> THEN S
    ELSE RunAll(handle_message(S, user_id, Head(msgs), "none", "generated", t).sessions,
                user_id, Tail(msgs), t)

\* Two calls for U1 are about to start; sessions keeps the store as it was
\* before them
InitConc ==
    /\ \E seed \in SeedScripts : sessions = RunAll(EmptyStore, "U1", seed, 0)
    /\ now \in {0} \cup TickAmounts
    /\ script = [msgs |-> <<>>, pos |-> 1, caught |-> FALSE]
    /\ steps = 0
    /\ last = NoOp
    /\ heap = IF sessions["U1"] = NoSession THEN <<>> ELSE <<sessions["U1"]>>
    /\ store = [u \in Users |-> IF sessions[u] = NoSession THEN 0 ELSE 1]
    /\ thr \in [Calls -> {[pc |-> "start", user |-> "U1", raw |-> m, message |-> "",
                           obj |-> 0, intent |-> None, reply |-> ""] :
                              m \in ConcMessages}]

Quiet == UNCHANGED <<sessions, now, script, steps, last>>

\* `message = (message or "").strip()`, the empty-message return, and
\* `session = self._sessions.get(user_id)` with the expiry test
CGet(c) ==
    /\ thr[c].pc = "start"
    /\ thr' = [thr EXCEPT ![c] =
          IF Strip(thr[c].raw) = ""
          THEN [thr[c] EXCEPT !.pc = "done", !.reply = EmptyPrompt]
          ELSE [thr[c] EXCEPT
                   !.message = Strip(thr[c].raw),
                   !.obj = store[thr[c].user],
                   !.pc = IF store[thr[c].user] # 0
                             /\ ~is_session_expired(heap[store[thr[c].user]],
                                                    session_timeout, now)
                          THEN "stamp" ELSE "create"]]
    /\ UNCHANGED <<heap, store>>
    /\ Quiet

\* `session = UserSession(user_id=user_id); self._sessions[user_id] = session`
CCreate(c) ==
    /\ thr[c].pc = "create"
    /\ heap' = Append(heap, NewSession(thr[c].user, now))
    /\ store' = [store EXCEPT ![thr[c].user] = Len(heap) + 1]
    /\ thr' = [thr EXCEPT ![c].obj = Len(heap) + 1, ![c].pc = "stamp"]
    /\ Quiet

\* `session.update_timestamp()`
CStamp(c) ==
    /\ thr[c].pc = "stamp"
    /\ heap' = [heap EXCEPT ![thr[c].obj] = update_timestamp(@, now)]
    /\ thr' = [thr EXCEPT ![c].pc = "classify"]
    /\ UNCHANGED store
    /\ Quiet

\* `intent = self.intent_classifier.classify(message, session.context)`
CClassify(c) ==
    /\ thr[c].pc = "classify"
    /\ thr' = [thr EXCEPT
          ![c].intent = Some(ClassifyLexed(Analyzed(thr[c].message).lexed,
                                           heap[thr[c].obj].context)),
          ![c].pc = "log"]
    /\ UNCHANGED <<heap, store>>
    /\ Quiet

\* `self._analyze_and_log(session, message, intent)`
CLog(c) ==
    /\ thr[c].pc = "log"
    /\ heap' = [heap EXCEPT ![thr[c].obj] =
          analyze_and_log(@, thr[c].message, Get(thr[c].intent),
                          Analyzed(thr[c].message), now)]
    /\ thr' = [thr EXCEPT ![c].pc = "respond"]
    /\ UNCHANGED store
    /\ Quiet

\* The session and the call once the rest of handle_message returned r
CReturn(c, r) ==
    /\ heap' = [heap EXCEPT ![thr[c].obj] = r.session]
    /\ thr' = [thr EXCEPT ![c].reply = r.response, ![c].pc = "done"]

\* The interceptor and the dispatch, to the return
CRespond(c) ==
    /\ thr[c].pc = "respond"
    /\ CReturn(c, Respond(heap[thr[c].obj], thr[c].message, Get(thr[c].intent),
                          Analyzed(thr[c].message), now))
    /\ UNCHANGED store
    /\ Quiet

NextConc ==
    \/ \E c \in Calls : CGet(c)
    \/ \E c \in Calls : CCreate(c)
    \/ \E c \in Calls : CStamp(c)
    \/ \E c \in Calls : CClassify(c)
    \/ \E c \in Calls : CLog(c)
    \/ \E c \in Calls : CRespond(c)

SpecConc == InitConc /\ [][NextConc]_vars

\* Both calls have returned
ConcDone == \A c \in Calls : thr[c].pc = "done"

\* The session _sessions holds for U1
Current == heap[store["U1"]]

-----------------------------------------------------------------------------
(* Properties                                                               *)

\* The last operation was a handle_message call
WasHandled == last.op = "handle"

\* The session the last call found: none, an expired one, a live one
FoundNone == last.pre[last.user] = NoSession
FoundExpired ==
    /\ ~FoundNone
    /\ last.at - last.pre[last.user].last_updated > session_timeout
FoundLive == ~FoundNone /\ ~FoundExpired

\* The state the last call started from
PriorState == IF FoundLive THEN last.pre[last.user].state ELSE ConversationState.INITIAL

\* The display name of a catalog id
ServiceName(id) == SERVICES[CHOOSE k \in 1..Len(SERVICES) : SERVICES[k].key = id].name

\* The amount listed for a budget text of the scenario
AmountOf(text) == (CHOOSE b \in BudgetsGiven : b.text = text).amount

\* The scenario has been replayed to its end
ScenarioDone == Len(script.msgs) = Len(Flow) /\ ~Replaying

\* The booking the scenario is to end with
Booked(business, budget) ==
    /\ sessions["U1"] # NoSession
    /\ sessions["U1"].state = ConversationState.COMPLETED
    /\ sessions["U1"].service = Some(ServiceName(script.msgs[2]))
    /\ sessions["U1"].hours_per_week = Some(ParseInt(script.msgs[4]))
    /\ sessions["U1"].business_type = Some(business)
    /\ sessions["U1"].budget = Some(budget)
    /\ IsSubstr(BOOKING_LINK, last.reply)

View(session) ==
    [state |-> session.state, service |-> session.service,
     hours_per_week |-> session.hours_per_week,
     business_type |-> session.business_type, budget |-> session.budget,
     clarification_attempts |-> session.context.clarification_attempts,
     messages |-> session.context.messages, intents |-> session.context.intents]

\* The concurrent outcome is the one of handling first's message (r1), then
\* second's (r2)
SameAsSerial(r1, r2, first, second) ==
    /\ View(Current) = View(r2.sessions["U1"])
    /\ thr[first].reply = r1.reply
    /\ thr[second].reply = r2.reply

SerialSecond(r1, first, second) ==
    SameAsSerial(r1, handle_message(r1.sessions, "U1", thr[second].raw, "none",
                                    "generated", now),
                 first, second)

Serial(first, second) ==
    SerialSecond(handle_message(sessions, "U1", thr[first].raw, "none", "generated", now),
                 first, second)

\* C2: when two handle_message calls for the same user have run concurrently,
\* the session and the two replies equal the outcome of one of the two
\* sequential orders.
C2_SerialOutcome ==
    ConcDone => \E first \in Calls : \E second \in Calls \ {first} : Serial(first, second)

\* C3: when two calls for the same user arrive while the user has no session
\* or an expired one, both run on one session object, the one the store
\* holds afterwards; no session created for one call is overwritten.
C3_OneSessionObject ==
    ConcDone /\ (sessions["U1"] = NoSession
                 \/ is_session_expired(sessions["U1"], session_timeout, now))
        => \A c \in Calls : thr[c].obj = store["U1"]

\* C4: handling a message for one user (session creation, expiry
\* replacement and the error path included), or resetting that user, leaves
\* the session of every other user as it was.
C4_OthersUnchanged ==
    last.op \in {"handle", "reset"} =>
        \A b \in Users \ {last.user} : sessions[b] = last.pre[b]

C4_Witness ==
    /\ WasHandled
    /\ last.user = "U2"
    /\ last.fault = "dispatch"
    /\ sessions["U2"] # last.pre["U2"]
    /\ sessions["U1"] # NoSession
    /\ last.at - sessions["U1"].last_updated > session_timeout

\* C5: handle_message returns a string and lets no failure reach the caller,
\* whatever the user, the message and the session, also when a fault is
\* raised while handling and when the generative fallback fails.
C5_AlwaysReplies ==
    WasHandled => ~last.raised /\ last.reply \in STRING

C5_Witness ==
    /\ WasHandled
    /\ last.fault = "classify"
    /\ last.outcome = "exception"
    /\ last.reply = LlmSorry
    /\ sessions[last.user].error_count = 1

\* C6: from every prior state but HumanHandoff, a message classified as
\* Greeting leaves the session in ServiceSelection and is answered with a
\* reply that contains the services menu.
C6_GreetingShowsMenu ==
    WasHandled /\ last.intent = Some(Intent.GREETING)
               /\ PriorState # ConversationState.HUMAN_HANDOFF
        => /\ sessions[last.user].state = ConversationState.SERVICE_SELECTION
           /\ IsSubstr(format_services_menu, last.reply)

C6_Witness ==
    /\ WasHandled
    /\ last.intent = Some(Intent.GREETING)
    /\ PriorState = ConversationState.CONFIRMATION
    /\ sessions[last.user].state = ConversationState.SERVICE_SELECTION

\* C7: a message classified as Greeting that arrives in HumanHandoff leaves
\* the session in HumanHandoff.
C7_GreetingKeepsHandoff ==
    WasHandled /\ last.intent = Some(Intent.GREETING)
               /\ PriorState = ConversationState.HUMAN_HANDOFF
        => sessions[last.user].state = ConversationState.HUMAN_HANDOFF

\* C8: in every state that has a handler, a message classified as
\* HumanRequest that the interceptor passes on moves the session to
\* HumanHandoff and is answered with the hand-off acknowledgement.
C8_HumanRequestHandsOff ==
    WasHandled /\ last.intent = Some(Intent.HUMAN_REQUEST) /\ last.route = "handler"
        => /\ sessions[last.user].state = ConversationState.HUMAN_HANDOFF
           /\ last.reply = HandoffAck

\* A brand-new session of user_id made at time t
BrandNew(session, user_id, t) ==
    /\ session.user_id = user_id
    /\ session.state = ConversationState.INITIAL
    /\ session.service = None
    /\ session.hours_per_week = None
    /\ session.business_type = None
    /\ session.budget = None
    /\ session.context.messages = <<>>
    /\ session.context.intents = <<>>
    /\ session.context.sentiment_scores = <<>>
    /\ session.context.clarification_attempts = 0
    /\ session.message_count = 0
    /\ session.error_count = 0
    /\ session.created_at = t
    /\ session.last_updated = t

\* C9: get_or_create replaces a session idle for longer than the timeout by
\* a brand-new one under the same id and returns any other session
\* unchanged; handle_message starts from that session; the passing of time
\* alone changes no session.
C9_ExpiryOnAccess ==
    /\ last.op = "access" /\ FoundExpired
          => BrandNew(sessions[last.user], last.user, last.at)
    /\ last.op = "access" /\ FoundLive => sessions[last.user] = last.pre[last.user]
    /\ WasHandled /\ last.route # "empty" /\ FoundExpired
          => sessions[last.user].created_at = last.at
    /\ WasHandled /\ FoundLive
          => sessions[last.user].created_at = last.pre[last.user].created_at
    /\ last.op = "tick" => sessions = last.pre

C9_Witness ==
    /\ last.op = "access"
    /\ FoundExpired
    /\ last.pre[last.user].state = ConversationState.COMPLETED
    /\ sessions[last.user].state = ConversationState.INITIAL

\* The message is empty or holds blanks only
OnlyBlanks(m) == \A i \in 1..Len(m) : IsSpace(At(m, i))

\* C10: an empty or whitespace-only message is answered with the prompt to
\* send a message and changes nothing: no session is created, an existing
\* one keeps every field, its last-activity time included.
C10_EmptyChangesNothing ==
    WasHandled /\ OnlyBlanks(last.message)
        => last.reply = EmptyPrompt /\ sessions = last.pre

C10_Witness ==
    /\ WasHandled
    /\ last.message = "  "
    /\ last.reply = EmptyPrompt
    /\ FoundExpired
    /\ sessions[last.user] = last.pre[last.user]

\* The session the last call started from: the one get_or_create returned
Started == get_or_create(last.pre, last.user, last.at)[last.user]

\* The four slots of a session
Slots(session) ==
    <<session.service, session.hours_per_week, session.business_type, session.budget>>

\* The last message is one the thank rule of the interceptor answers
ThankCase ==
    /\ WasHandled
    /\ IsSubstr("thank", Strip(Lower(last.message)))
    /\ last.intent # Some(Intent.GREETING)
    /\ ~IsSubstr("menu", Strip(Lower(last.message)))
    /\ ~IsSubstr("services", Strip(Lower(last.message)))

\* The call r, made right after the last one with the same message, gives
\* the same reply and leaves state and slots alone
SameAgain(r) ==
    /\ r.reply = last.reply
    /\ r.sessions[last.user].state = sessions[last.user].state
    /\ Slots(r.sessions[last.user]) = Slots(sessions[last.user])

\* C11: a message that contains "thank" (not a Greeting, without "menu" and
\* "services"), sent twice in immediate succession, is answered with the
\* fixed acknowledgement both times, and neither call changes the state or
\* one of the four slots of the session it started from.
C11_ThankTwice ==
    ThankCase =>
        /\ last.reply = ThanksReply
        /\ sessions[last.user].state = Started.state
        /\ Slots(sessions[last.user]) = Slots(Started)
        /\ SameAgain(handle_message(sessions, last.user, last.message, "none",
                                    "generated", now))

C11_Witness ==
    /\ ThankCase
    /\ last.message = "no thanks"
    /\ last.intent = Some(Intent.REJECTION)
    /\ FoundLive
    /\ PriorState = ConversationState.CONFIRMATION
    /\ sessions[last.user].state = ConversationState.CONFIRMATION
    /\ IsSome(sessions[last.user].budget)

\* The message resolves to no service and is neither Restart nor HumanRequest
\* (both are decided by the patterns alone)
Unresolved(m) ==
    /\ ~IsSome(Analyzed(Strip(m)).service)
    /\ classify(m, NewContext) \notin {Intent.RESTART, Intent.HUMAN_REQUEST}

\* k messages have followed the greeting, all unresolved, none intercepted
Clarifying(k) ==
    /\ script.pos = k + 2
    /\ ~script.caught
    /\ \A j \in 2..(k + 1) : Unresolved(script.msgs[j])

\* What the reply of clarification attempt k says
ClarifyText(k) ==
    IF k = 1 THEN "Type the *number* or *name* from the menu"
    ELSE IF k = 2 THEN "Let me show you the menu again:\n\n" \o format_services_menu
    ELSE "Would you like to speak with a team member?"

\* The reply to the k-th message after the greeting, from the history
ReplyTo(k) == sessions["U1"].context.messages[2 * k + 2].content

\* C12: in ServiceSelection with the clarification counter at 0, each of
\* three consecutive messages that resolve to no service (not Restart, not
\* HumanRequest, not intercepted) raises the counter by exactly 1 and keeps
\* ServiceSelection; attempt 1 asks to retype, attempt 2 shows the menu
\* again, attempt 3 offers human help, and the three replies differ.
C12_ClarificationEscalates ==
    \A k \in 1..3 :
        Clarifying(k) =>
            /\ sessions["U1"].context.clarification_attempts = k
            /\ sessions["U1"].state = ConversationState.SERVICE_SELECTION
            /\ IsSubstr(ClarifyText(k), last.reply)
            /\ ReplyTo(k) = last.reply
            /\ k = 3 => /\ ReplyTo(1) # ReplyTo(2)
                        /\ ReplyTo(1) # ReplyTo(3)
                        /\ ReplyTo(2) # ReplyTo(3)

C12_Witness ==
    /\ Clarifying(3)
    /\ script.msgs = <<"hi", "terrible", "no", "x">>
    /\ sessions["U1"].context.clarification_attempts = 3
    /\ IsSubstr("I hear you. ", ReplyTo(1))
    /\ IsSubstr(ClarifyText(3), last.reply)

\* The populated slots are a prefix of service, hours, business, budget
PrefixFilled(session) ==
    \A i \in 1..3 : IsSome(Slots(session)[i + 1]) => IsSome(Slots(session)[i])

\* C13: in every reachable session, greetings and menu requests in the
\* middle of the flow included, the populated slots are a prefix of the
\* canonical order service, hours, business, budget: no later slot is
\* populated while an earlier one is empty.
C13_SlotsFormPrefix ==
    \A u \in Users : sessions[u] # NoSession => PrefixFilled(sessions[u])

\* The last n entries of a sequence
Keep(s, n) == IF Len(s) > n THEN SubSeq(s, Len(s) - n + 1, Len(s)) ELSE s

\* new is old with the last k entries of new appended one by one, the oldest
\* entries evicted beyond n
Fifo(old, new, k, n) ==
    /\ Len(new) >= k
    /\ new = Keep(old \o SubSeq(new, Len(new) - k + 1, Len(new)), n)

\* The last call answered an FAQ: the interceptor logs the user message a
\* second time
FaqAnswered ==
    /\ last.route = "global"
    /\ last.intent # Some(Intent.GREETING)
    /\ ~Analyzed(Strip(last.message)).commands.menu
    /\ ~Analyzed(Strip(last.message)).commands.thank
    /\ Analyzed(Strip(last.message)).commands.faq # 0

\* The last call ran on a live session and did not replace its context
ContextKept ==
    /\ WasHandled
    /\ FoundLive
    /\ Len(sessions[last.user].context.sentiment_scores)
          = Len(last.pre[last.user].context.sentiment_scores) + 1

\* C14: the message history never holds more than 10 entries and the
\* intent history never more than 5; a call appends its entries in arrival
\* order, and what a full history loses is exactly its oldest entries.
C14_BoundedFifo ==
    /\ \A u \in Users : sessions[u] # NoSession =>
          /\ Len(sessions[u].context.messages) <= 10
          /\ Len(sessions[u].context.intents) <= 5
    /\ ContextKept =>
          /\ Fifo(last.pre[last.user].context.messages,
                  sessions[last.user].context.messages,
                  IF FaqAnswered THEN 3 ELSE 2, 10)
          /\ Fifo(last.pre[last.user].context.intents,
                  sessions[last.user].context.intents,
                  IF FaqAnswered THEN 2 ELSE 1, 5)

C14_Witness ==
    /\ ContextKept
    /\ ~FaqAnswered
    /\ Len(last.pre[last.user].context.messages) = 10
    /\ Len(last.pre[last.user].context.intents) = 5
    /\ Len(sessions[last.user].context.messages) = 10
    /\ sessions[last.user].context.messages[1] = last.pre[last.user].context.messages[3]
    /\ sessions[last.user].context.intents[1] = last.pre[last.user].context.intents[2]

\* The priority order of the intents that have patterns
Priority ==
    <<Intent.GREETING, Intent.RESTART, Intent.CONFIRMATION, Intent.REJECTION,
      Intent.HUMAN_REQUEST, Intent.HELP, Intent.FAQ, Intent.COMPLAINT>>

\* A pattern of the intent Priority[p] matches the lower-cased trimmed message
Matches(p, message) ==
    \E k \in 1..Len(PATTERNS) :
        /\ PATTERNS[k].intent = Priority[p]
        /\ WordSearch(PATTERNS[k].alts, Strip(Lower(message)))

\* The last operation was a classify call
WasClassified == last.op = "classify"

\* C15: classify returns the first intent, in the order Greeting, Restart,
\* Confirmation, Rejection, HumanRequest, Help, Faq, Complaint, that has a
\* pattern matching the lower-cased trimmed message, whatever the context;
\* a message matching a Greeting and a Rejection pattern is a Greeting.
C15_FirstIntentWins ==
    WasClassified =>
        /\ \A p \in 1..Len(Priority) :
              Matches(p, last.message) /\ (\A q \in 1..(p - 1) : ~Matches(q, last.message))
                  => last.intent = Some(Priority[p])
        /\ Matches(1, last.message) /\ Matches(4, last.message)
              => last.intent = Some(Intent.GREETING)

C15_Witness ==
    /\ WasClassified
    /\ last.message = "hello, no thanks"
    /\ Matches(1, last.message)
    /\ Matches(4, last.message)
    /\ last.context.intents = <<Intent.REJECTION>>
    /\ last.intent = Some(Intent.GREETING)

\* The digits between positions i and j of s are one maximal run
IsRun(s, i, j) ==
    /\ i <= j
    /\ \A k \in i..j : IsDigit(At(s, k))
    /\ ~IsDigit(At(s, i - 1))
    /\ ~IsDigit(At(s, j + 1))

\* The integers embedded in s
Embedded(s) ==
    {ParseInt(SubSeq(s, i, j)) : <<i, j>> \in {p \in (1..Len(s)) \X (1..Len(s)) : IsRun(s, p[1], p[2])}}

InRange(n) == n >= 1 /\ n <= 168

\* The last operation was an extract_hours call
HoursExtracted == last.op = "extract_hours"

\* C16: extract_hours returns none or an integer in [1, 168]; for a message
\* whose embedded integer is outside [1, 168] it returns none, for one whose
\* embedded integer is inside the range it returns that integer.
C16_HoursInRange ==
    HoursExtracted =>
        /\ IsSome(last.value) => InRange(Get(last.value))
        /\ \A n \in Embedded(last.message) :
              Embedded(last.message) = {n} =>
                  last.value = IF InRange(n) THEN Some(n) ELSE None

\* C16, the consequence for the sessions: the hours slot is empty or holds
\* an integer in [1, 168]
C16_HoursSlotInRange ==
    \A u \in Users :
        sessions[u] # NoSession /\ IsSome(sessions[u].hours_per_week)
            => InRange(Get(sessions[u].hours_per_week))

\* The states of the specification's state set
ClosedStates ==
    {ConversationState.INITIAL, ConversationState.SERVICE_SELECTION,
     ConversationState.SERVICE_DETAIL, ConversationState.HOURS_COLLECTION,
     ConversationState.BUSINESS_TYPE, ConversationState.BUDGET_COLLECTION,
     ConversationState.CONFIRMATION, ConversationState.COMPLETED,
     ConversationState.HUMAN_HANDOFF, ConversationState.ERROR}

\* The last call handled a message that is not blank
Answered == WasHandled /\ ~OnlyBlanks(last.message)

\* C17: transitions are total and stay inside the closed state set: after
\* every non-empty message, from every reachable state and with every intent,
\* handle_message has returned a reply without an exception and the session
\* holds one state of the closed set; no session is ever in the FAQ mode.
C17_TransitionsTotal ==
    /\ \A u \in Users :
          sessions[u] # NoSession => sessions[u].state \in ClosedStates
    /\ Answered =>
          /\ ~last.raised
          /\ last.reply # ""
          /\ IsSome(last.intent)
          /\ sessions[last.user] # NoSession
          /\ sessions[last.user].state \in ClosedStates

\* An FAQ question is answered in the middle of the flow and the session
\* stays in the state it had
C17_Witness ==
    /\ Answered
    /\ last.intent = Some(Intent.FAQ)
    /\ last.route = "global"
    /\ PriorState = ConversationState.BUDGET_COLLECTION
    /\ sessions[last.user].state = ConversationState.BUDGET_COLLECTION

\* The last call found a live session in state Completed
FromCompleted == Answered /\ FoundLive /\ PriorState = ConversationState.COMPLETED

\* The last message asks for a restart or names the menu
RestartOrMenu ==
    \/ last.intent = Some(Intent.RESTART)
    \/ IsSubstr("menu", Lower(last.message))

\* The session was reset and the reply is all its context holds
FullyReset(session) ==
    /\ Slots(session) = <<None, None, None, None>>
    /\ session.context = add_message(NewContext, "assistant", last.reply, None, last.at)

\* C18: from Completed, a message with Restart intent or one containing the
\* menu keyword resets the session in full (four slots emptied, context
\* cleared), shows the menu and moves to ServiceSelection; any other message
\* the interceptor lets through repeats the booking link and leaves the
\* state Completed and the slots as they were.
C18_CompletedRestartsOrRepeats ==
    FromCompleted =>
        IF RestartOrMenu
        THEN /\ FullyReset(sessions[last.user])
             /\ last.reply = format_services_menu
             /\ sessions[last.user].state = ConversationState.SERVICE_SELECTION
        ELSE last.route # "global" =>
             /\ IsSubstr(BOOKING_LINK, last.reply)
             /\ sessions[last.user].state = ConversationState.COMPLETED
             /\ Slots(sessions[last.user]) = Slots(last.pre[last.user])

\* The catalog entry the last message resolves to, if any
Resolved == Analyzed(Strip(last.message)).service

\* The last message reached a live session in ServiceSelection, passed the
\* interceptor, carries no Restart intent and resolves to a catalog entry
SelectionCase ==
    /\ Answered
    /\ FoundLive
    /\ PriorState = ConversationState.SERVICE_SELECTION
    /\ last.route # "global"
    /\ last.intent # Some(Intent.RESTART)
    /\ IsSome(Resolved)

\* C19: in ServiceSelection, every message the interceptor lets through that
\* has no Restart intent and resolves to a catalog entry sets the service
\* slot to that entry, records its name in the topics, is answered with the
\* service detail and moves the session to ServiceDetail.
C19_ResolvedServiceSelected ==
    SelectionCase =>
        /\ sessions[last.user].service = Some(Get(Resolved).name)
        /\ Get(Resolved).name \in sessions[last.user].context.topics_discussed
        /\ IsSubstr(format_service_detail(Get(Resolved).name), last.reply)
        /\ sessions[last.user].state = ConversationState.SERVICE_DETAIL

\* The last message got past rules 1 to 4 of the interceptor: greeting,
\* menu or services, thank, FAQ keyword
PastRules ==
    /\ Answered
    /\ last.intent # Some(Intent.GREETING)
    /\ ~Analyzed(Strip(last.message)).commands.menu
    /\ ~Analyzed(Strip(last.message)).commands.thank
    /\ Analyzed(Strip(last.message)).commands.faq = 0

\* The sentiment scores recorded so far, the one of the last message included
Scores ==
    Append(Started.context.sentiment_scores, Analyzed(Strip(last.message)).sentiment)

\* The last three recorded scores are all negative
ThreeNegative ==
    /\ Len(Scores) >= 3
    /\ \A k \in (Len(Scores) - 2)..Len(Scores) : Scores[k] < 0

\* The clarification counter the last call found
CounterBefore == Started.context.clarification_attempts

\* C20: for a message not caught by rules 1 to 4 of the interceptor: if the
\* last three recorded sentiment scores, the one of this message included,
\* are all negative, or the clarification counter exceeds 2, the reply is
\* the Human/Restart/Menu offer, no state handler runs and the state, the
\* slots and the counter stay as they were; otherwise the message goes on
\* to the state dispatch.
C20_FrustrationOffer ==
    PastRules =>
        IF ThreeNegative \/ CounterBefore > 2
        THEN /\ last.route = "global"
             /\ IsSubstr("I sense you might be frustrated.", last.reply)
             /\ IsSubstr("(Reply *HUMAN*)", last.reply)
             /\ IsSubstr("(Reply *RESTART*)", last.reply)
             /\ IsSubstr("(Reply *MENU*)", last.reply)
             /\ sessions[last.user].state = Started.state
             /\ Slots(sessions[last.user]) = Slots(Started)
             /\ sessions[last.user].context.clarification_attempts = CounterBefore
        ELSE last.route # "global"

\* The offer is made for the counter alone: three clarifications were
\* answered and the fourth unclear message is not negative
C20_Witness ==
    /\ PastRules
    /\ CounterBefore = 3
    /\ ~ThreeNegative
    /\ script.msgs = <<"hi", "x", "x", "x", "x">>
    /\ last.route = "global"
    /\ sessions[last.user].context.clarification_attempts = 3

\* What a customer may answer to the frustration offer, and the
\* conversations of up to three such answers
EscapeMessages == {"human", "restart", "menu", "1", "hi", "yes"}
EscapeScripts == UNION {[1..n -> EscapeMessages] : n \in 1..3}

RECURSIVE Told(_, _, _, _)
\* The store after user_id has sent the messages of s, at time t
Told(S, user_id, s, t) ==
    IF s = <<>> THEN S
    ELSE Told(handle_message(S, user_id, Head(s), "none", "generated", t).sessions,
              user_id, Tail(s), t)

\* After the messages of s, one more message m reaches a state handler with
\* the counter back at 0
EscapesBy(S, user_id, s, m, t) ==
    /\ Told(S, user_id, s, t)[user_id].context.clarification_attempts = 0
    /\ handle_message(Told(S, user_id, s, t), user_id, m, "none", "generated", t).route
           = "handler"

\* The session of user_id has the clarification counter above 2
Trapped(S, user_id) ==
    /\ S[user_id] # NoSession
    /\ S[user_id].context.clarification_attempts > 2

\* C21: frustration is not a trap: from every reachable session whose
\* clarification counter exceeds 2, some sequence of handle_message calls
\* (no expiry, no administrative reset or delete) brings the counter back to
\* 0 and lets a later message reach a state handler.
C21_FrustrationEscapes ==
    \A u \in Users :
        Trapped(sessions, u) =>
            \E s \in EscapeScripts, m \in EscapeMessages :
                EscapesBy(sessions, u, s, m, now)

\* C21, what the code does instead: a message sent to a live session with
\* the counter above 2 never reaches a state handler and leaves the counter
\* where it was
C21_CounterStays ==
    Answered /\ FoundLive /\ CounterBefore > 2 =>
        /\ last.route = "global"
        /\ sessions[last.user].context.clarification_attempts = CounterBefore

\* The last message reached the handler of state `from`, which extracted its
\* answer and moved the session on to state `to`
Extracted(from, to) ==
    /\ Answered
    /\ last.route = "handler"
    /\ PriorState = from
    /\ sessions[last.user].state = to

\* A state handler extracted a productive answer from the last message
Productive ==
    \/ Extracted(ConversationState.SERVICE_SELECTION, ConversationState.SERVICE_DETAIL)
    \/ Extracted(ConversationState.HOURS_COLLECTION, ConversationState.BUSINESS_TYPE)
    \/ Extracted(ConversationState.BUSINESS_TYPE, ConversationState.BUDGET_COLLECTION)
    \/ Extracted(ConversationState.BUDGET_COLLECTION, ConversationState.CONFIRMATION)

\* The clarification counter after the last call
CounterAfter == sessions[last.user].context.clarification_attempts

\* C22: whenever a state handler extracts a productive answer (a service in
\* ServiceSelection, hours in HoursCollection, a business type in
\* BusinessType, a budget in BudgetCollection) the clarification counter is 0
\* after that message; the counter increases only on a pass through
\* ServiceSelection or HoursCollection that extracts nothing.
C22_ProductiveResetsCounter ==
    /\ Productive => CounterAfter = 0
    /\ Answered /\ CounterAfter > CounterBefore =>
          /\ last.route = "handler"
          /\ PriorState \in {ConversationState.SERVICE_SELECTION,
                             ConversationState.HOURS_COLLECTION}
          /\ sessions[last.user].state = PriorState
          /\ Slots(sessions[last.user]) = Slots(Started)

\* The last message reached the handler of state s in a live session
HandledIn(s) ==
    /\ Answered
    /\ FoundLive
    /\ PriorState = s
    /\ last.route # "global"

\* The session after the last call, and whether it kept state and slots
After == sessions[last.user]
Stayed == After.state = PriorState /\ Slots(After) = Slots(Started)

\* C23: in Confirmation, for a message the interceptor lets through: a
\* Confirmation intent moves to Completed with the final booking message,
\* which contains the link, and keeps the four slots; a Rejection intent
\* resets the session in full (four slots empty, context cleared) and moves
\* to ServiceSelection with the menu; any other intent asks YES/NO again and
\* leaves state and slots unchanged.
C23_ConfirmationStep ==
    HandledIn(ConversationState.CONFIRMATION) =>
        IF last.intent = Some(Intent.CONFIRMATION)
        THEN /\ After.state = ConversationState.COMPLETED
             /\ IsSubstr(BOOKING_LINK, last.reply)
             /\ Slots(After) = Slots(Started)
        ELSE IF last.intent = Some(Intent.REJECTION)
        THEN /\ After.state = ConversationState.SERVICE_SELECTION
             /\ FullyReset(After)
             /\ IsSubstr(format_services_menu, last.reply)
        ELSE /\ IsSubstr(ConfirmReprompt, last.reply)
             /\ Stayed

\* A booking with four filled slots is rejected at the confirmation
C23_Witness ==
    /\ HandledIn(ConversationState.CONFIRMATION)
    /\ last.intent = Some(Intent.REJECTION)
    /\ \A i \in 1..4 : IsSome(Slots(Started)[i])
    /\ Slots(After) = <<None, None, None, None>>
    /\ After.state = ConversationState.SERVICE_SELECTION

\* C24: in ServiceDetail, for a message the interceptor lets through: a
\* Confirmation intent sets the clarification counter to 0 and moves to
\* HoursCollection with the service slot kept; a Rejection intent empties
\* the service slot (name and key) and moves to ServiceSelection with the
\* menu; any other intent asks YES/NO again and leaves state and slots
\* unchanged.
C24_ServiceDetailStep ==
    HandledIn(ConversationState.SERVICE_DETAIL) =>
        IF last.intent = Some(Intent.CONFIRMATION)
        THEN /\ CounterAfter = 0
             /\ After.state = ConversationState.HOURS_COLLECTION
             /\ After.service = Started.service
             /\ After.service_key = Started.service_key
             /\ IsSome(After.service)
        ELSE IF last.intent = Some(Intent.REJECTION)
        THEN /\ After.service = None
             /\ After.service_key = None
             /\ After.state = ConversationState.SERVICE_SELECTION
             /\ IsSubstr(format_services_menu, last.reply)
        ELSE /\ IsSubstr("*YES* to proceed with this service", last.reply)
             /\ IsSubstr("*NO* to choose a different service", last.reply)
             /\ Stayed

\* A service picked at the second try is confirmed: the counter goes from 1
\* back to 0
C24_Witness ==
    /\ HandledIn(ConversationState.SERVICE_DETAIL)
    /\ last.intent = Some(Intent.CONFIRMATION)
    /\ CounterBefore = 1
    /\ CounterAfter = 0
    /\ After.state = ConversationState.HOURS_COLLECTION

\* The hours extract_hours finds in the last message, if any
HoursFound == Analyzed(Strip(last.message)).hours

\* C25: in HoursCollection, for a message the interceptor lets through: an
\* extracted in-range hours value is stored in the hours slot and the state
\* becomes BusinessType; otherwise the clarification counter grows by
\* exactly 1, the state stays HoursCollection and the reply is the example
\* prompt while the new counter is at most 2, the multiple-choice help once
\* it is greater than 2.
C25_HoursStep ==
    HandledIn(ConversationState.HOURS_COLLECTION) =>
        IF IsSome(HoursFound)
        THEN /\ InRange(Get(HoursFound))
             /\ After.hours_per_week = HoursFound
             /\ After.state = ConversationState.BUSINESS_TYPE
        ELSE /\ CounterAfter = CounterBefore + 1
             /\ After.state = ConversationState.HOURS_COLLECTION
             /\ After.hours_per_week = Started.hours_per_week
             /\ IF CounterAfter <= 2
                THEN /\ IsSubstr("Example: Type '10' for 10 hours per week", last.reply)
                     /\ ~IsSubstr("Part-time support", last.reply)
                ELSE /\ IsSubstr("Part-time support (5-20 hours/week)?", last.reply)
                     /\ IsSubstr("Full-time support (30-40 hours/week)?", last.reply)
                     /\ IsSubstr("Just a few hours (1-10 hours/week)?", last.reply)

\* The third message in a row without hours gets the multiple-choice help
C25_Witness ==
    /\ HandledIn(ConversationState.HOURS_COLLECTION)
    /\ HoursFound = None
    /\ CounterBefore = 2
    /\ CounterAfter = 3
    /\ IsSubstr("Part-time support (5-20 hours/week)?", last.reply)

\* The last message, trimmed, and the budget extract_budget finds in it
Text == Strip(last.message)
BudgetFound == Analyzed(Text).budget

\* C26: in BusinessType a message the interceptor lets through that is
\* shorter than 2 characters is answered with the prompt again and changes
\* neither state nor slots, a longer one is stored as the business slot and
\* moves to BudgetCollection; in BudgetCollection a message that yields an
\* extracted budget or is free text of at least 2 characters is stored as the
\* budget slot and moves to Confirmation with a summary of the four slots,
\* any other message is answered with the prompt again and leaves the state
\* BudgetCollection and the budget slot as it was.
C26_BusinessAndBudgetStep ==
    /\ HandledIn(ConversationState.BUSINESS_TYPE) =>
          IF Len(Text) < 2
          THEN /\ IsSubstr("Please tell me about your business.", last.reply)
               /\ Stayed
          ELSE /\ After.business_type = Some(Text)
               /\ After.state = ConversationState.BUDGET_COLLECTION
    /\ HandledIn(ConversationState.BUDGET_COLLECTION) =>
          IF IsSome(BudgetFound) \/ Len(Text) >= 2
          THEN /\ After.budget = IF IsSome(BudgetFound) THEN BudgetFound ELSE Some(Text)
               /\ After.state = ConversationState.CONFIRMATION
               /\ IsSubstr(Summary(After), last.reply)
               /\ \A i \in 1..4 :
                     IsSubstr("*" \o (IF i = 2 THEN FmtInt(Slots(After)[i])
                                              ELSE Fmt(Slots(After)[i])) \o "*",
                              last.reply)
          ELSE /\ IsSubstr("Please provide your budget range.", last.reply)
               /\ Stayed

\* A one-letter answer is turned down in BudgetCollection
C26_Witness ==
    /\ HandledIn(ConversationState.BUDGET_COLLECTION)
    /\ Text = "x"
    /\ BudgetFound = None
    /\ After.state = ConversationState.BUDGET_COLLECTION
    /\ After.budget = None

\* C27: in HumanHandoff, a message the interceptor lets through with a
\* Confirmation intent gets the hand-off acknowledgement and keeps the state
\* HumanHandoff; every other one resumes the bot, shows the menu and moves
\* to ServiceSelection; the slots are unchanged in both cases.
C27_HandoffStep ==
    HandledIn(ConversationState.HUMAN_HANDOFF) =>
        /\ Slots(After) = Slots(Started)
        /\ last.route = "handoff"
        /\ IF last.intent = Some(Intent.CONFIRMATION)
           THEN /\ IsSubstr("Our team has been notified and will reach out shortly.", last.reply)
                /\ After.state = ConversationState.HUMAN_HANDOFF
           ELSE /\ IsSubstr("Let me help you right now.", last.reply)
                /\ IsSubstr(format_services_menu, last.reply)
                /\ After.state = ConversationState.SERVICE_SELECTION

\* The hand-off is confirmed by a customer who had picked service and hours
C27_Witness ==
    /\ HandledIn(ConversationState.HUMAN_HANDOFF)
    /\ last.intent = Some(Intent.CONFIRMATION)
    /\ IsSome(Started.service)
    /\ IsSome(Started.hours_per_week)
    /\ After.state = ConversationState.HUMAN_HANDOFF

\* The last message contains "menu" or "services", in any case
MenuCase ==
    /\ Answered
    /\ \/ IsSubstr("menu", Lower(last.message))
       \/ IsSubstr("services", Lower(last.message))

KeysFound == {k \in 1..Len(FAQS) : IsSubstr(FAQS[k], Lower(Text))}

\* The last message got past rules 1 to 3 of the interceptor and contains
\* an FAQ key
FaqCase ==
    /\ Answered
    /\ last.intent # Some(Intent.GREETING)
    /\ ~IsSubstr("menu", Lower(Text))
    /\ ~IsSubstr("services", Lower(Text))
    /\ ~IsSubstr("thank", Lower(Text))
    /\ KeysFound # {}

\* C29: a message not caught by rules 1 to 3 of the interceptor that
\* contains a key of the FAQ table is answered with the matched FAQ answer
\* verbatim; state, slots and clarification counter stay as they were, and
\* an intent Faq is recorded in the intent history of the context.
C29_FaqAnswered ==
    FaqCase =>
        /\ last.reply \in {FaqAnswer(FAQS[k]) : k \in KeysFound}
        /\ last.route = "global"
        /\ After.state = Started.state
        /\ Slots(After) = Slots(Started)
        /\ CounterAfter = CounterBefore
        /\ After.context.intents # <<>>
        /\ After.context.intents[Len(After.context.intents)] = Intent.FAQ

\* A question about security in the middle of the flow: the classifier
\* finds no intent in it, the interceptor records Faq
C29_Witness ==
    /\ FaqCase
    /\ last.message = "security"
    /\ last.intent = Some(Intent.UNKNOWN)
    /\ FoundLive
    /\ PriorState = ConversationState.HOURS_COLLECTION
    /\ After.state = ConversationState.HOURS_COLLECTION
    /\ last.reply = FaqAnswer("security")

\* The entries of the message history that log the text m as a user message
UserEntries(messages, m) ==
    {i \in 1..Len(messages) : messages[i].role = "user" /\ messages[i].content = m}

\* C30: every handle_message call with a non-empty message appends the
\* user's message exactly once to the message history and exactly one entry
\* to the intent history, whichever branch produces the reply.
C30_LoggedOnce ==
    Answered /\ ContextKept =>
        /\ Fifo(Started.context.messages, After.context.messages, 2, 10)
        /\ After.context.messages[Len(After.context.messages) - 1].role = "user"
        /\ After.context.messages[Len(After.context.messages) - 1].content = Text
        /\ After.context.messages[Len(After.context.messages)].role = "assistant"
        /\ Fifo(Started.context.intents, After.context.intents, 1, 5)
        /\ Started.context.messages = <<>> =>
              Cardinality(UserEntries(After.context.messages, Text)) = 1

\* The last message found a session in a state without handler, a new or
\* replaced session included, and passed the interceptor
NoHandlerCase ==
    /\ Answered
    /\ Started.state \notin HandlerStates
            \cup {ConversationState.COMPLETED, ConversationState.HUMAN_HANDOFF}
    /\ last.route # "global"

\* C31: when the state has no registered handler (Initial, Error) and the
\* message is not intercepted, handle_message recovers without raising: the
\* session is reset in full (slots empty, context cleared), the state is
\* ServiceSelection and the reply shows the menu; the first message of a new
\* or replaced session that is no greeting takes this path.
C31_UnknownStateRecovers ==
    /\ NoHandlerCase =>
          /\ ~last.raised
          /\ last.route = "unknown_state"
          /\ FullyReset(After)
          /\ After.state = ConversationState.SERVICE_SELECTION
          /\ IsSubstr(format_services_menu, last.reply)
    /\ Answered /\ ~FoundLive /\ last.route # "global" => NoHandlerCase

\* The first message of a session that replaces an expired one with a
\* finished booking
C31_Witness ==
    /\ NoHandlerCase
    /\ FoundExpired
    /\ last.pre[last.user].state = ConversationState.COMPLETED
    /\ last.message = "x"
    /\ After.state = ConversationState.SERVICE_SELECTION
    /\ Len(After.context.messages) = 1

\* The last operation was a reset of a session; what it was given and what
\* it left
WasReset == last.op = "session.reset"
Given == Get(last.arg).session
Left == Get(last.value)

\* C32: reset empties the four slots, replaces the context by an empty one
\* and sets the state to ServiceSelection; style preference and timezone are
\* preserved when keep_preferences is true and go back to their defaults
\* when it is false.
C32_ResetClears ==
    WasReset =>
        /\ Slots(Left) = <<None, None, None, None>>
        /\ Left.service_key = None
        /\ Left.context = NewContext
        /\ Left.state = ConversationState.SERVICE_SELECTION
        /\ IF Get(last.arg).keep_preferences
           THEN /\ Left.preferred_response_style = Given.preferred_response_style
                /\ Left.timezone = Given.timezone
           ELSE /\ Left.preferred_response_style = "professional"
                /\ Left.timezone = None

\* The last operation was an extract_service_preference call
ServiceExtracted == last.op = "extract_service_preference"

\* The message as the extractor compares it, and the catalog names
Norm == Lower(Strip(last.message))
NameOf(k) == Lower(SERVICES[k].name)

\* The tokens entry k shares with the message
Shared(k) == Cardinality(WordRuns(Norm) \cap WordRuns(NameOf(k)))

\* Id, exact name, synonym and substring matching all fail on the message
OverlapStep ==
    /\ ServiceExtracted
    /\ \A k \in 1..Len(SERVICES) :
          /\ SERVICES[k].key # Norm
          /\ NameOf(k) # Norm
          /\ ~IsSubstr(NameOf(k), Norm)
          /\ ~IsSubstr(Norm, NameOf(k))
    /\ \A j \in 1..Len(SYNONYMS) :
          \/ \A w \in SYNONYMS[j].synonyms : ~IsSubstr(w, Norm)
          \/ \A k \in 1..Len(SERVICES) : ~IsSubstr(SYNONYMS[j].key, NameOf(k))

\* The entries that share the highest number of tokens with the message
Top == {k \in 1..Len(SERVICES) : \A j \in 1..Len(SERVICES) : Shared(j) <= Shared(k)}

\* C33: in the token-overlap step of the service resolution an entry is
\* returned only if it shares at least 2 tokens with the message and strictly
\* more than every other entry; when several entries tie for the highest
\* count the result is none, never one of the tied entries.
C33_OverlapStrictMaximum ==
    OverlapStep =>
        IF \E k \in Top : Top = {k} /\ Shared(k) >= 2
        THEN last.value = Some(SERVICES[CHOOSE k \in Top : TRUE])
        ELSE last.value = None

\* No intent pattern matches the classified message
NoPattern == WasClassified /\ \A p \in 1..Len(Priority) : ~Matches(p, last.message)

\* The classified message has more than 2 tokens; it contains a digit
Substantial == SplitCount(Strip(Lower(last.message))) > 2
HasDigit == \E i \in 1..Len(last.message) : IsDigit(At(last.message, i))

\* A Rejection is the last intent of the given context; it is one of the
\* last two
RejectedLast ==
    /\ last.context.intents # <<>>
    /\ last.context.intents[Len(last.context.intents)] = Intent.REJECTION
RejectedLately ==
    \E k \in 1..Len(last.context.intents) :
        /\ k > Len(last.context.intents) - 2
        /\ last.context.intents[k] = Intent.REJECTION

\* C34 as stated: when no pattern matches, classify returns ServiceInquiry
\* if the immediately preceding intent of the context was Rejection and the
\* message has more than 2 tokens, otherwise ServiceInquiry if the message
\* contains a digit, otherwise Unknown.
C34_FallbackAsStated ==
    NoPattern =>
        last.intent = Some(IF RejectedLast /\ Substantial THEN Intent.SERVICE_INQUIRY
                           ELSE IF HasDigit THEN Intent.SERVICE_INQUIRY
                           ELSE Intent.UNKNOWN)

\* C34, amended: when no pattern matches, classify returns ServiceInquiry
\* if a Rejection is among the last two intents recorded in the context and
\* the message has more than 2 tokens, otherwise ServiceInquiry if the
\* message contains a digit, otherwise Unknown.
C34_ContextFallback ==
    NoPattern =>
        last.intent = Some(IF RejectedLately /\ Substantial THEN Intent.SERVICE_INQUIRY
                           ELSE IF HasDigit THEN Intent.SERVICE_INQUIRY
                           ELSE Intent.UNKNOWN)

\* A rejection two messages back turns a three-word message into a
\* ServiceInquiry
C34_Witness ==
    /\ NoPattern
    /\ last.message = "we sell shoes"
    /\ last.context.intents = <<Intent.REJECTION, Intent.UNKNOWN>>
    /\ last.intent = Some(Intent.SERVICE_INQUIRY)


-----------------------------------------------------------------------------
(* The sentiment decision table                                             *)

WasAnalyzed == last.op = "analyze"

\* The distinct words of the analyzed message found in a lexicon
Found(lexicon) == Cardinality(WordRuns(Lower(last.message)) \cap lexicon)

\* The table as the specification states it, on the counts p and n
Stated(p, n) ==
    CASE n > p + 1 /\ n >= 3 -> SentimentScore.VERY_NEGATIVE
      [] n > p + 1 /\ n < 3  -> SentimentScore.NEGATIVE
      [] p > n + 1 /\ p >= 3 -> SentimentScore.VERY_POSITIVE
      [] p > n + 1 /\ p < 3  -> SentimentScore.POSITIVE
      [] p = n + 1           -> SentimentScore.POSITIVE
      [] n = p + 1           -> SentimentScore.NEGATIVE
      [] p = n               -> SentimentScore.NEUTRAL

\* C35: analyze returns the score its decision table gives for the numbers p
\* and n of distinct positive and negative lexicon words of the message:
\* very negative if n > p+1 and n >= 3, negative if n > p+1 and n < 3, very
\* positive if p > n+1 and p >= 3, positive if p > n+1 and p < 3, positive if
\* p = n+1, negative if n = p+1, neutral if p = n. Nothing else of the message
\* counts, and the score for the swapped counts is the opposite score.
C35_SentimentTable ==
    WasAnalyzed =>
        /\ last.value = Some(Stated(Found(POSITIVE_WORDS), Found(NEGATIVE_WORDS)))
        /\ Stated(Found(NEGATIVE_WORDS), Found(POSITIVE_WORDS)) = 0 - Get(last.value)

\* Three negative words against one positive one were scored very negative
C35_Witness ==
    /\ WasAnalyzed
    /\ Found(NEGATIVE_WORDS) = 3
    /\ Found(POSITIVE_WORDS) = 1
    /\ last.value = Some(SentimentScore.VERY_NEGATIVE)

-----------------------------------------------------------------------------
(* Personalization of a handler's reply                                     *)

\* The last call was answered by a state handler
ByHandler == WasHandled /\ last.route = "handler"

\* The intent of the last message
Meant == ClassifyLexed(Analyzed(Strip(last.message)).lexed, Started.context)

\* What the state handler returned in the last call
Produced ==
    Handle(handle_global_commands(
               Strip(last.message),
               analyze_and_log(update_timestamp(Started, last.at), Strip(last.message),
                               Meant, Analyzed(Strip(last.message)), last.at),
               Meant, Analyzed(Strip(last.message)), last.at).session,
           Strip(last.message), Meant, Analyzed(Strip(last.message)), last.at)

\* The most recent sentiment score of the session, 0 when it has none
Latest ==
    IF After.context.sentiment_scores = <<>> THEN 0
    ELSE After.context.sentiment_scores[Len(After.context.sentiment_scores)]

\* The empathy phrase for that score
Empathy ==
    IF Latest = SentimentScore.VERY_NEGATIVE THEN "I understand your frustration. "
    ELSE IF Latest = SentimentScore.NEGATIVE THEN "I hear you. "
    ELSE ""

\* The personalization failed in the last call
PersonalizeFailed ==
    WasHandled /\ last.fault = "personalize" /\ last.route = "error"

\* C36: the reply of a state handler gets an empathy phrase in front exactly
\* when the most recent sentiment score of the session is negative, one
\* phrase for very negative and another for negative; the style rewrite is
\* applied to the reply with its phrase, and the professional style changes
\* nothing. The handler's next state is assigned after the personalization:
\* the call ends in it, and a failure of the personalization leaves the
\* session in the state the handler returned it in, with the slots the
\* handler filled.
C36_EmpathyThenStyle ==
    /\ ByHandler =>
          /\ last.reply = format_for_style(Empathy \o Produced.response,
                                           Started.preferred_response_style)
          /\ Started.preferred_response_style = "professional"
                => last.reply = Empathy \o Produced.response
          /\ After.state = Produced.next_state
    /\ PersonalizeFailed =>
          /\ After.state = Produced.session.state
          /\ Slots(After) = Slots(Produced.session)

\* A casual reply to a negative message, where the rewrite of the reply with
\* its phrase differs from the phrase before the rewritten reply
C36_Witness ==
    /\ ByHandler
    /\ Started.preferred_response_style = "casual"
    /\ Latest = SentimentScore.NEGATIVE
    /\ last.reply # Empathy \o format_for_style(Produced.response, "casual")

-----------------------------------------------------------------------------
(* The generative fallback                                                  *)

\* The last call went through the except branch, where llm_fallback is called
FellBack == WasHandled /\ last.route = "error"

\* A failure was raised inside the try block of the last call
Faulted ==
    TryBlock(last.pre, last.user, Strip(last.message), Analyzed(Strip(last.message)),
             last.fault, last.at).raised

\* The collaborator failed: the request failed or timed out, or the body was
\* not a generated text
CollaboratorFailed == last.outcome \in {"exception", "unexpected", "error"}

SafeApology ==
    "I encountered an error. Please try again.\nType *MENU* to see options or reply *HUMAN* for assistance."

\* The error counter of the user's session before and after the last call, 0
\* without a session
ErrorsBefore == IF FoundLive THEN last.pre[last.user].error_count ELSE 0
ErrorsAfter == IF After = NoSession THEN 0 ELSE After.error_count

\* llm_fallback is called exactly on a failure raised while handling
FallbackOnFaultOnly == WasHandled => (FellBack <=> Faulted)

\* The error path adds exactly 1 to the error counter of the session, if there
\* is one, and no other path changes it
ErrorCountedOnce ==
    WasHandled =>
        ErrorsAfter = ErrorsBefore + (IF FellBack /\ After # NoSession THEN 1 ELSE 0)

\* The text llm_fallback generated is the reply
GeneratedReturned ==
    FellBack /\ last.outcome = "generated" => last.reply = "<generated text>"

\* C37: the generative fallback is called only when handling the message
\* raised a failure; that path adds exactly 1 to the session's error counter
\* and returns the generated text when the collaborator succeeds; when the
\* collaborator fails (unreachable, timed out, malformed response), the reply
\* is the fixed safe apology of handle_message with its menu and human hint.
C37_FallbackLadder ==
    /\ FallbackOnFaultOnly
    /\ ErrorCountedOnce
    /\ GeneratedReturned
    /\ FellBack /\ CollaboratorFailed => last.reply = SafeApology

-----------------------------------------------------------------------------
(* The state and the slots collected before it                              *)

\* The states reached once slot i of service, hours, business, budget has
\* been collected
StatesPast(i) ==
    CASE i = 1 -> {ConversationState.SERVICE_DETAIL, ConversationState.HOURS_COLLECTION,
                   ConversationState.BUSINESS_TYPE, ConversationState.BUDGET_COLLECTION,
                   ConversationState.CONFIRMATION, ConversationState.COMPLETED}
      [] i = 2 -> {ConversationState.BUSINESS_TYPE, ConversationState.BUDGET_COLLECTION,
                   ConversationState.CONFIRMATION, ConversationState.COMPLETED}
      [] i = 3 -> {ConversationState.BUDGET_COLLECTION, ConversationState.CONFIRMATION,
                   ConversationState.COMPLETED}
      [] i = 4 -> {ConversationState.CONFIRMATION, ConversationState.COMPLETED}

\* The slots the state of the session stands for are populated
SlotsCollected(session) ==
    \A i \in 1..4 : session.state \in StatesPast(i) => IsSome(Slots(session)[i])

\* C38: in every reachable session the state implies the slots of the earlier
\* steps: service from ServiceDetail on, hours from BusinessType on, business
\* from BudgetCollection on, budget in Confirmation and Completed; a
\* Completed session has all four.
C38_StateImpliesSlots ==
    \A u \in Users : sessions[u] # NoSession => SlotsCollected(sessions[u])

\* A booking was just completed
C38_Witness ==
    /\ WasHandled
    /\ PriorState = ConversationState.CONFIRMATION
    /\ After.state = ConversationState.COMPLETED
    /\ \A i \in 1..4 : IsSome(Slots(After)[i])

-----------------------------------------------------------------------------
(* The clarification counter and the sentiment list                         *)

\* The counter of a context is covered by its sentiment list, and a counter
\* above 2 is seen by is_frustrated
CounterCovered(context) ==
    /\ context.clarification_attempts <= Len(context.sentiment_scores)
    /\ context.clarification_attempts > 2
          => Len(context.sentiment_scores) >= 3 /\ is_frustrated(context)

\* C39: in every reachable session, of the store or held by a call in
\* flight, the clarification counter is at most the length of the sentiment
\* list of the same context; so a counter above 2 comes with at least three
\* recorded scores, and is_frustrated, which answers no for fewer than three
\* scores, never misses a counter above 2.
C39_CounterWithinScores ==
    /\ \A u \in Users : sessions[u] # NoSession => CounterCovered(sessions[u].context)
    /\ \A i \in DOMAIN heap : CounterCovered(heap[i].context)

-----------------------------------------------------------------------------
(* The message counter                                                      *)

\* The message counter of the user's session before the last operation, as
\* fetched or created, and after it
CountBefore == Started.message_count
CountAfter == After.message_count

\* C40: the message counter of a session is the number of non-empty messages
\* it has handled since it was created: handle_message adds exactly 1 for a
\* non-empty message, whichever branch answers it, and nothing for an empty
\* one; no other operation on the session adds to it.
C40_CountsMessages ==
    /\ WasHandled =>
          IF OnlyBlanks(last.message) THEN sessions = last.pre
          ELSE CountAfter = CountBefore + 1
    /\ last.op = "reset" => CountAfter = CountBefore
=============================================================================
